---- MODULE Spec2Model ----
(***************************************************************************)
(* Model of the event-registration client (SaaScraft-Studio/aig_user).     *)
(*                                                                         *)
(* Part I  : the payment page (app/(section)/registration/payment/page.tsx)*)
(*           as a state machine over its React state, its two effects, the *)
(*           third-party checkout widget and the two backend calls.        *)
(* Part II : the registration wizard's answer store, the step-1 normalizer *)
(*           and the step-4 submission handlers.                           *)
(* Part III: one field followed from its descriptor to the request, the    *)
(*           answer store on its own, the wizard next to the payment page. *)
(* Part V  : the event store and its cache.                                *)
(* Part VI : the submission of an abstract.                                *)
(* Part VII: the paginated tables.                                         *)
(*                                                                         *)
(* A handler runs to its next await in one step; the continuation after an *)
(* await is a separate step taken when the awaited response arrives.       *)
(***************************************************************************)
EXTENDS Integers, Sequences, FiniteSets, TLC

(***************************************************************************)
(* Bounds                                                                  *)
(***************************************************************************)
\* cap on the number of create-order requests recorded in one visit
MaxOrderReq == 3
\* cap on the number of registration requests still awaiting a response
\* after the component that sent them was unmounted
MaxOutstanding == 1
\* cap on the requests of one event-store operation for one event id that
\* await a response at the same time
MaxFetch == 1
\* cap on the clock: the number of steps it advances
MaxTicks == 2
\* cap on the abstracts the backend records in one session
MaxRecords == 4
\* cap on the rows of the list under a table
MaxItems == 21

(***************************************************************************)
(* Values shared by both parts                                             *)
(***************************************************************************)
\* JavaScript null / undefined for string-typed slots
Null == "null"

VARIABLES
  \* ---- payment page: inputs fixed for one visit ----
  registrationId,   \* searchParams.get("registrationId")
  token,            \* localStorage "accessToken"
  amount,           \* basicDetails.registrationCategory.amount || 0
  \* ---- payment page: browser / React state ----
  mounted,          \* first commit done, effects have run once
  razorpay,         \* window.Razorpay is defined
  script,           \* the injected script tag: none | loading | loaded | failed
  loading,          \* useState(true)
  order,            \* useState(null)
  paymentLoading,   \* useState(false)
  scriptLoaded,     \* useState(false)
  error,            \* useState(null)
  stage,            \* useState("Loading payment gateway...")
  lastDeps,         \* [scriptLoaded, error] seen by the last run of the order effect
  \* ---- payment page: environment ----
  orderInFlight,    \* create-order requests awaiting a response
  widget,           \* checkout modal: closed | open
  timers,           \* pending setTimeout callbacks, by captured paymentLoading
  hpc,              \* position of the completion handler: idle | verifying | delay | done
  response,         \* the widget's response object given to the handler
  toast,            \* last toast shown
  redirect,         \* last router.push target
  \* ---- payment page: history (observation only) ----
  orderSent,        \* create-order requests sent in this visit
  orderSentUnloaded,\* a create-order request was sent while scriptLoaded was false
  orderFailed,      \* some create-order request ended in the catch block
  orderResp,        \* the create-order response processed last
  verifySent,       \* verify requests sent in this visit
  handlerCalls,     \* invocations of the completion handler
  verifyResp        \* the verify response that the handler processed

payVars == <<registrationId, token, amount, mounted, razorpay, script, loading,
             order, paymentLoading, scriptLoaded, error, stage, lastDeps,
             orderInFlight, widget, timers, hpc, response, toast, redirect,
             orderSent, orderSentUnloaded, orderFailed, orderResp,
             verifySent, handlerCalls, verifyResp>>

VARIABLES
  \* ---- event store and backend ----
  currentEvent,     \* useEventStore().currentEvent?._id, Null when none
  serverForm,       \* the dynamic field descriptors the backend serves
  step4Variant,     \* which Step4ConfirmPay the build mounts: "Signup" | "part_004"
  \* ---- registration store (useRegistrationStore) ----
  currentStep,      \* wizard step shown: 1 the form ... 4 confirm and pay
  basicDetails,     \* the answer store's record
  dynamicFormFields,\* the event's dynamic field descriptors
  \* ---- step 1 component state (Step1BasicDetails) ----
  formBase,         \* the profile inputs and terms box: "empty" | "filled"
  formCategory,     \* form value registrationCategory
  formValues,       \* form values of the additional_<id> and dynamic_<id> keys
  selectedCategory, \* useState selectedCategory
  dynamicSchema,    \* useState dynamicSchema: the rule of every form key
  formFetched,      \* the dynamic-form fetch of this mount has finished
  \* ---- step 4 component state (Step4ConfirmPay) ----
  regLoading,       \* useState loading
  regError,         \* useState error (part_004 only)
  regToast,         \* the toast the latest step raised, NoMsg when none
  regInFlight,      \* the registration requests awaiting their responses
  regRedirect       \* router.push target: the registration id, Null when none

regVars == <<currentEvent, serverForm, step4Variant, currentStep, basicDetails,
             dynamicFormFields, formBase, formCategory, formValues,
             selectedCategory, dynamicSchema, formFetched, regLoading,
             regError, regToast, regInFlight, regRedirect>>

VARIABLES
  \* ---- one field followed from its descriptor to the request ----
  synStep1,         \* which Step1BasicDetails the build mounts
  synStep4,         \* which Step4ConfirmPay the build mounts
  synBucket,        \* "additional" (category field) | "dynamic" (event field)
  synField,         \* the field's descriptor as held by the component
  synValue,         \* the form value under the field's key
  synFile,          \* basicDetails.dynamicFormFileUploads[field.id] at submit
  synPc,            \* idle | form | schema | rejected | saved | sent
  synRule,          \* the rule createDynamicSchema gave the field's key
  synAnswer,        \* the answer onSubmit stored for the field
  synUpload,        \* the field's entry in the stored file map
  synObj,           \* the answer object handleSubmit put in the request
  synPart           \* the binary part handleSubmit appended for the field

synVars == <<synStep1, synStep4, synBucket, synField, synValue, synFile, synPc,
             synRule, synAnswer, synUpload, synObj, synPart>>

VARIABLES
  \* ---- registration store: the members beside the answers ----
  accompanyingPersons, \* the accompanying persons entered on step 2
  selectedWorkshops,   \* the workshop ids chosen on step 3
  badgeInfo,           \* the badge of the success page, Null when none
  skippedAccompanying, \* step 2 was skipped
  skippedWorkshops,    \* step 3 was skipped
  resetFrom            \* history: "none" unless the last store operation was
                       \* resetForm, then whether the store was "initial" or
                       \* "changed" when it ran

\* the store's members beside the answers
restStore == <<accompanyingPersons, selectedWorkshops, badgeInfo,
               skippedAccompanying, skippedWorkshops>>

restVars == <<accompanyingPersons, selectedWorkshops, badgeInfo,
              skippedAccompanying, skippedWorkshops, resetFrom>>

VARIABLES
  \* ---- event store (useEventStore): currentEvent is declared above ----
  eventLoading,        \* the store's loading flag
  eventCache,          \* eventCache: event id -> entry, NoEntry when absent
  settingsCache,       \* settingsCache: event id -> entry
  registrationSettings,\* the event id whose settings are held, Null when none
  now,                 \* Date.now()
  eventFetches         \* requests awaiting a response, by operation and id

evVars == <<eventLoading, eventCache, settingsCache, registrationSettings, now,
            eventFetches>>

VARIABLES
  \* ---- abstract store (useAbstractStore) and the submission sidebar ----
  abstracts,           \* the store's list of abstracts, by id
  selectedAbstract,    \* the abstract being edited, 0 for a new one
  isSidebarOpen,       \* the submission sidebar is shown
  absLoading,          \* the store's loading flag
  absError,            \* the store's error, Null when none
  submitting,          \* useState submitting of the sidebar
  absPc,               \* position of onSubmit: idle | posted | adding
  absToast,            \* the last toast of the sidebar
  backendCount,        \* the abstracts the backend has recorded
  absSent,             \* history: abstract-submit requests the current or
                       \* last run of onSubmit has sent
  absAdded             \* history: abstracts that run has added to the list

absVars == <<abstracts, selectedAbstract, isSidebarOpen, absLoading, absError,
             submitting, absPc, absToast, backendCount, absSent, absAdded>>

VARIABLES
  \* ---- a paginated table (AbstractTable, WorkshopTable) ----
  tableVariant,        \* which table is mounted
  items,               \* the underlying list, as the number of its rows
  search,              \* useState search
  sortBy,              \* useState sortBy
  sortOrder,           \* useState sortOrder
  currentPage          \* useState currentPage

tblVars == <<tableVariant, items, search, sortBy, sortOrder, currentPage>>

auxVars == <<restVars, evVars, absVars, tblVars>>

vars == <<payVars, regVars, synVars, auxVars>>

(***************************************************************************)
(* Values and initial state of the registration wizard                     *)
(***************************************************************************)
\* JavaScript values that occur in form values and answers, tagged by kind
Undef == [t |-> "undef", v |-> ""]
NullV == [t |-> "null", v |-> ""]
Str(s) == [t |-> "str", v |-> s]
Arr(a) == [t |-> "arr", v |-> a]
\* a File object; size "small" is at most 5 MB, "big" is more
FileOf(size) == [t |-> "file", v |-> size]

IsFile(x) == x.t = "file"
IsString(x) == x.t = "str"
IsArray(x) == x.t = "arr"
\* JavaScript truthiness
Truthy(x) == x.t \in {"file", "arr"} \/ (x.t = "str" /\ x.v # "")
\* x || ""
OrEmpty(x) == IF Truthy(x) THEN x ELSE Str("")

FileSizes == {"small", "big"}
ExistingUrl == "https://cdn/uploads/existing.pdf"

Range(seq) == {seq[i] : i \in 1..Len(seq)}

\* Array.prototype.join(", ") for the option lists of the descriptors below
Join(a) ==
  IF Len(a) = 0 THEN ""
  ELSE IF Len(a) = 1 THEN a[1]
  ELSE IF a = <<"t1", "t2">> THEN "t1, t2"
  ELSE IF a = <<"t2", "t1">> THEN "t2, t1"
  ELSE "joined"

\* ---- descriptors the backend serves (AdditionalField, DynamicFormField) ----
AF_IdProof ==
  [id |-> "1", type |-> "upload", label |-> "ID Proof", options |-> <<>>]
AF_Diet ==
  [id |-> "2", type |-> "checkbox", label |-> "Dietary Options",
   options |-> <<"veg">>]
AddIds == {"1", "2"}

\* registrationCategory: undefined as any (useRegistrationStore.ts 177)
NoCategory ==
  [_id |-> "", needAdditionalInfo |-> FALSE, additionalFields |-> <<>>]
CatBasic ==
  [_id |-> "slab_basic", needAdditionalInfo |-> FALSE, additionalFields |-> <<>>]
CatEarly ==
  [_id |-> "slab_early", needAdditionalInfo |-> TRUE,
   additionalFields |-> <<AF_IdProof, AF_Diet>>]
Categories == {CatBasic, CatEarly}

DF_BadgeName ==
  [id |-> "d1", type |-> "input", inputTypes |-> "text", required |-> TRUE,
   label |-> "Badge Name", options |-> <<>>]
DF_IdProof ==
  [id |-> "d2", type |-> "input", inputTypes |-> "file", required |-> TRUE,
   label |-> "ID Proof", options |-> <<>>]
DF_Topics ==
  [id |-> "d3", type |-> "checkbox", inputTypes |-> "", required |-> TRUE,
   label |-> "Topics", options |-> <<"t1">>]
ServerForms == { <<DF_BadgeName, DF_IdProof>>, <<DF_Topics>> }
DynIds == {"d1", "d2", "d3"}
TextInputs == {"", "Dr Who"}

\* form keys `additional_${id}` and `dynamic_${id}`
AddKey(id) == <<"additional", id>>
DynKey(id) == <<"dynamic", id>>
FormKeys == {AddKey(id) : id \in AddIds} \cup {DynKey(id) : id \in DynIds}

\* A message: its text in parts, and which of the probe words that the
\* handlers test with String.includes occur in it, case-sensitively (words)
\* and after toLowerCase() (lower)
Msg(text, words, lower) == [text |-> text, words |-> words, lower |-> lower]
NoMsg == Msg(<<>>, {}, {})
Includes(msg, word) == word \in msg.words
LowerIncludes(msg, word) == word \in msg.lower
\* `${prefix}${msg}`
Prefixed(prefix, words, lower, msg) ==
  Msg(<<prefix>> \o msg.text, words \cup msg.words, lower \cup msg.lower)

\* ---- answer store (useRegistrationStore.ts 158-194) ----
InitialBasicDetails ==
  [eventId |-> "", eventName |-> "", fullName |-> "", email |-> "",
   phone |-> "", registrationCategory |-> NoCategory,
   additionalAnswers |-> [id \in AddIds |-> Undef],
   fileUploads |-> [id \in AddIds |-> Undef],
   dynamicFormAnswers |-> <<>>,
   dynamicFormFileUploads |-> [id \in DynIds |-> Undef],
   registrationId |-> ""]

\* createDynamicSchema(null, []): no additional_ or dynamic_ key
EmptySchema == [k \in FormKeys |-> "absent"]
\* a registration request awaiting its response: the handler that sent it,
\* the basicDetails of the render its closure belongs to, and whether the
\* component instance that sent it is still mounted
NoRequest == [handler |-> "none", closure |-> InitialBasicDetails,
              live |-> FALSE]
\* one slot more than the cap, for the request of the mounted component
Slots == 1..(MaxOutstanding + 1)
\* the requests of the mounted Step4ConfirmPay, and those whose component
\* is gone
LiveRequests == {n \in Slots : regInFlight[n] # NoRequest /\ regInFlight[n].live}
Orphans == {n \in Slots : regInFlight[n] # NoRequest /\ ~regInFlight[n].live}

\* Step1BasicDetails freshly mounted on an untouched store
RegInitStore ==
  /\ currentStep = 1
  /\ basicDetails = InitialBasicDetails
  /\ dynamicFormFields = <<>>
  /\ accompanyingPersons = <<>> /\ selectedWorkshops = <<>>
  /\ badgeInfo = Null
  /\ skippedAccompanying = FALSE /\ skippedWorkshops = FALSE
  /\ resetFrom = "none"
  /\ formBase = "empty"
  /\ formCategory = NoCategory
  /\ formValues = [k \in FormKeys |-> Undef]
  /\ selectedCategory = NoCategory
  /\ dynamicSchema = EmptySchema
  /\ formFetched = FALSE
  /\ regLoading = FALSE
  /\ regError = NoMsg
  /\ regToast = NoMsg
  /\ regInFlight = [n \in Slots |-> NoRequest]
  /\ regRedirect = Null

\* ---- no field is being followed ----
NoField ==
  [id |-> "", type |-> "", inputTypes |-> "", required |-> FALSE,
   label |-> "", options |-> <<>>, minSelected |-> 0, maxSelected |-> 0]
NoRule == [kind |-> "absent", min |-> 0, max |-> 0]
NoAnswer ==
  [id |-> "", label |-> "", type |-> "", required |-> FALSE, value |-> Undef,
   fileUrl |-> Undef, inputTypes |-> "", options |-> <<>>]
NoObj ==
  [id |-> "", label |-> "", type |-> "", required |-> FALSE, value |-> Undef,
   fileUrl |-> Undef, inputTypes |-> "", options |-> <<>>, keys |-> {}]

SynIdle ==
  /\ synStep1 = "part_007" /\ synStep4 = "part_004"
  /\ synBucket = "dynamic" /\ synField = NoField
  /\ synValue = Undef /\ synFile = Undef
  /\ synPc = "idle" /\ synRule = NoRule
  /\ synAnswer = NoAnswer /\ synUpload = Undef
  /\ synObj = NoObj /\ synPart = Undef

\* ---- the event store, the abstract store and the tables at rest ----
EventIds == {"ev1", "ev2"}
FetchOps == {"fetchEventById", "fetchRegistrationSettings"}
\* a cache slot with no entry
NoEntry == [data |-> Null, timestamp |-> 0]

\* useEventStore.ts 112-119
EvIdle ==
  /\ eventLoading = FALSE
  /\ eventCache = [id \in EventIds |-> NoEntry]
  /\ settingsCache = [id \in EventIds |-> NoEntry]
  /\ registrationSettings = Null
  /\ now = 0
  /\ eventFetches = [k \in FetchOps \X EventIds |-> 0]

\* useAbstractStore.ts 58-65, part_010 92
AbsIdle ==
  /\ abstracts = <<>> /\ selectedAbstract = 0 /\ isSidebarOpen = FALSE
  /\ absLoading = FALSE /\ absError = Null
  /\ submitting = FALSE /\ absPc = "idle" /\ absToast = Null
  /\ backendCount = 0 /\ absSent = 0 /\ absAdded = 0

\* part_011 41-46
TblIdle ==
  /\ tableVariant = "AbstractTable" /\ items = 0
  /\ search = "" /\ sortBy = Null /\ sortOrder = "asc" /\ currentPage = 1

\* the useState initial values of a table: part_011 41-46 (AbstractTable),
\* WorkshopTable.tsx 99-114
TblMounted(variant) ==
  /\ tableVariant = variant /\ items = 0
  /\ search = "" /\ sortOrder = "asc" /\ currentPage = 1
  /\ sortBy = IF variant = "AbstractTable" THEN Null ELSE "name"

AuxIdle == EvIdle /\ AbsIdle /\ TblIdle

(***************************************************************************)
(* Part I.  Payment page                                                   *)
(***************************************************************************)
RegistrationIds == {Null, "reg1", "reg2"}
Tokens == {Null, "tok"}
Amounts == {0, 500}
PaymentIds == {"pay_A", "pay_B"}
ServerMessages == {"", "srv_msg_1", "srv_msg_2"}

NoOrder == [id |-> Null, amount |-> 0, paymentId |-> Null]
NoToast == [kind |-> "none", msg |-> ""]
NoRedirect == [route |-> "none", registrationId |-> Null, paymentId |-> Null,
               message |-> Null]
NoResponse == [razorpay_order_id |-> Null, razorpay_payment_id |-> Null]

\* An HTTP exchange as the handlers can tell it apart:
\*   net  : fetch resolved ("ok") or rejected ("fail")
\*   ok   : Response.ok
\*   body : what Response.json() yields: it throws on "nonjson"; otherwise
\*          an object with success true ("success"), success true without a
\*          data member ("nodata"), or success false/absent ("failure")
\*   message : the object's message member ("" when absent)
NetFail == [net |-> "fail", ok |-> FALSE, body |-> "nonjson", message |-> ""]
HttpResponses ==
  {NetFail} \cup
  [net : {"ok"}, ok : BOOLEAN, body : {"nonjson"}, message : {""}] \cup
  [net : {"ok"}, ok : BOOLEAN, body : {"success", "nodata", "failure"},
   message : ServerMessages]

\* message of the exception thrown by Response.json() on a non-JSON body
JsonParseError == "Unexpected token < in JSON"
\* message of the TypeError thrown by fetch on a network failure
FetchError == "Failed to fetch"
\* message of the TypeError thrown by reading a member of undefined
TypeErrorMsg == "Cannot read properties of undefined"

ScriptErrorMsg == "Failed to load payment gateway. Please refresh the page."

PayInit ==
  /\ registrationId \in RegistrationIds
  /\ token \in Tokens
  /\ amount \in Amounts
  /\ mounted = FALSE
  /\ razorpay \in BOOLEAN
  /\ script = "none"
  /\ loading = TRUE
  /\ order = NoOrder
  /\ paymentLoading = FALSE
  /\ scriptLoaded = FALSE
  /\ error = Null
  /\ stage = "Loading payment gateway..."
  /\ lastDeps = <<FALSE, Null>>
  /\ orderInFlight = 0
  /\ widget = "closed"
  /\ timers = {}
  /\ hpc = "idle"
  /\ response = NoResponse
  /\ toast = NoToast
  /\ redirect = NoRedirect
  /\ orderSent = 0
  /\ orderSentUnloaded = FALSE
  /\ orderFailed = FALSE
  /\ orderResp = NetFail
  /\ verifySent = 0
  /\ handlerCalls = 0
  /\ verifyResp = NetFail
  /\ currentEvent = Null
  /\ serverForm = <<>>
  /\ step4Variant = "Signup"
  /\ RegInitStore
  /\ SynIdle
  /\ AuxIdle

\* the page is still the one shown: no router.push has been issued
OnPage == mounted /\ redirect = NoRedirect


\* ------------------------------------------------------------------------
\* Rendering (page.tsx 372-395)
\* ------------------------------------------------------------------------
\* <LoadingOverlay/>, a fixed full-screen layer above the page
OverlayShown == loading \/ paymentLoading

\* <ErrorDisplay message={error}/>
ErrorDisplayed == error # Null /\ ~loading

\* <CheckoutSummary order={order} onPay={handlePay}/> is rendered: mutant that
\* forgets the error test
CheckoutRendered_NoErrorTest == ~loading /\ order # NoOrder

\* <CheckoutSummary order={order} onPay={handlePay}/> is rendered
CheckoutRendered == error = Null /\ ~loading /\ order # NoOrder

\* mutant: the overlay does not shield the Pay button
PayAvailable_OverlayTransparent ==
  OnPage /\ CheckoutRendered /\ widget = "closed"

\* the Pay button can be clicked: rendered, not covered by the overlay or by
\* the checkout modal, page still shown
PayAvailable ==
  OnPage /\ CheckoutRendered /\ ~OverlayShown /\ widget = "closed"

\* ------------------------------------------------------------------------
\* createRazorpayOrder up to its first await (page.tsx 86-124), called
\* by the order effect
\* ------------------------------------------------------------------------
CreateOrderStart ==
  IF token = Null
  THEN /\ error' = "Please login again"
       /\ toast' = [kind |-> "error", msg |-> "Please login again"]
       /\ redirect' = [NoRedirect EXCEPT !.route = "login"]
       /\ stage' = "Creating payment order..."
       /\ loading' = FALSE
       /\ UNCHANGED <<orderInFlight, orderSent, orderSentUnloaded>>
  ELSE IF amount <= 0
  THEN /\ error' = "Invalid registration amount"
       /\ toast' = [kind |-> "error", msg |-> "Invalid registration amount"]
       /\ stage' = "Creating payment order..."
       /\ loading' = FALSE
       /\ UNCHANGED <<redirect, orderInFlight, orderSent, orderSentUnloaded>>
  ELSE /\ orderSent < MaxOrderReq
       /\ loading' = TRUE
       /\ stage' = "Connecting to payment server..."
       /\ orderInFlight' = orderInFlight + 1
       /\ orderSent' = orderSent + 1
       /\ orderSentUnloaded' = (orderSentUnloaded \/ ~scriptLoaded)
       /\ UNCHANGED <<error, toast, redirect>>

\* body of the order effect (page.tsx 73-164) for the state of the render
\* that scheduled it
OrderEffectBody ==
  IF registrationId = Null
  THEN /\ error' = "Registration ID is required"
       /\ toast' = [kind |-> "error", msg |-> "Registration ID is required"]
       /\ redirect' = [NoRedirect EXCEPT !.route = "dashboard"]
       /\ UNCHANGED <<loading, stage, orderInFlight, orderSent,
                      orderSentUnloaded>>
  ELSE IF ~scriptLoaded /\ error = Null
  THEN UNCHANGED <<error, toast, redirect, loading, stage, orderInFlight,
                   orderSent, orderSentUnloaded>>
  ELSE CreateOrderStart

\* ------------------------------------------------------------------------
\* First commit: both effects run with the initial render's state
\* (scriptLoaded = false, error = null)
\* ------------------------------------------------------------------------
Mount ==
  /\ ~mounted
  /\ mounted' = TRUE
  /\ lastDeps' = <<scriptLoaded, error>>
  \* loadRazorpayScript (page.tsx 37-69)
  /\ IF razorpay
     THEN scriptLoaded' = TRUE /\ script' = "present"
     ELSE scriptLoaded' = FALSE /\ script' = "loading"
  \* the order effect of the first render
  /\ OrderEffectBody
  /\ UNCHANGED <<registrationId, token, amount, razorpay, order, paymentLoading,
                 widget, timers, hpc, response, orderFailed, orderResp, verifySent,
                 handlerCalls, verifyResp>>
  /\ UNCHANGED <<regVars, synVars, auxVars>>

\* script.onload (page.tsx 50-53)
ScriptOnload ==
  /\ OnPage
  /\ script = "loading"
  /\ script' = "loaded"
  /\ razorpay' = TRUE
  /\ scriptLoaded' = TRUE
  /\ stage' = "Payment gateway ready"
  /\ UNCHANGED <<registrationId, token, amount, mounted, loading, order,
                 paymentLoading, error, lastDeps, orderInFlight, widget, timers,
                 hpc, response, toast, redirect, orderSent, orderSentUnloaded,
                 orderFailed, orderResp, verifySent, handlerCalls, verifyResp>>
  /\ UNCHANGED <<regVars, synVars, auxVars>>

\* script.onerror (page.tsx 55-58)
ScriptOnerror ==
  /\ OnPage
  /\ script = "loading"
  /\ script' = "failed"
  /\ error' = ScriptErrorMsg
  /\ toast' = [kind |-> "error", msg |-> "Payment gateway failed to load"]
  /\ UNCHANGED <<registrationId, token, amount, mounted, razorpay, loading,
                 order, paymentLoading, scriptLoaded, stage, lastDeps,
                 orderInFlight, widget, timers, hpc, response, redirect,
                 orderSent, orderSentUnloaded, orderFailed, orderResp, verifySent,
                 handlerCalls, verifyResp>>
  /\ UNCHANGED <<regVars, synVars, auxVars>>

\* The order effect runs again after a commit in which one of its
\* dependencies [registrationId, basicDetails, router, scriptLoaded, error,
\* eventId] changed (page.tsx 164); only scriptLoaded and error change
\* during a visit.
OrderEffect ==
  /\ OnPage
  /\ lastDeps # <<scriptLoaded, error>>
  /\ lastDeps' = <<scriptLoaded, error>>
  /\ OrderEffectBody
  /\ UNCHANGED <<registrationId, token, amount, mounted, razorpay, script,
                 order, paymentLoading, scriptLoaded, widget, timers, hpc,
                 response, orderFailed, orderResp, verifySent, handlerCalls, verifyResp>>
  /\ UNCHANGED <<regVars, synVars, auxVars>>

\* ------------------------------------------------------------------------
\* createRazorpayOrder after the fetch (page.tsx 126-160)
\* ------------------------------------------------------------------------
\* the message of the error the try block throws for a response, Null when
\* it throws nothing
OrderErrorOf(resp) ==
  IF resp.net = "fail" THEN FetchError
  ELSE IF resp.body = "nonjson" THEN JsonParseError
  ELSE IF ~resp.ok
  THEN (IF resp.message # "" THEN resp.message
        ELSE "Failed to create payment order")
  ELSE IF resp.body = "success" THEN Null
  ELSE IF resp.body = "nodata" THEN TypeErrorMsg
  ELSE "Failed to create order"

\* mutant of the catch block: the error is toasted but not stored
OrderResponse_NoSetError(resp) ==
  /\ orderInFlight > 0
  /\ resp \in HttpResponses
  /\ orderInFlight' = orderInFlight - 1
  /\ orderResp' = resp
  /\ loading' = FALSE
  /\ IF OrderErrorOf(resp) = Null
     THEN /\ order' = [id |-> "order_1", amount |-> amount,
                       paymentId |-> "payrec_1"]
          /\ stage' = "Payment ready"
          /\ toast' = [kind |-> "success",
                       msg |-> "Payment initialized successfully"]
          /\ UNCHANGED <<error, orderFailed>>
     ELSE /\ toast' = [kind |-> "error", msg |-> OrderErrorOf(resp)]
          /\ orderFailed' = TRUE
          /\ stage' = IF resp.net = "ok" /\ resp.ok
                      THEN "Processing order details..." ELSE stage
          /\ UNCHANGED <<order, error>>
  /\ UNCHANGED <<registrationId, token, amount, mounted, razorpay, script,
                 paymentLoading, scriptLoaded, lastDeps, widget, timers, hpc,
                 response, redirect, orderSent, orderSentUnloaded, verifySent,
                 handlerCalls, verifyResp>>
  /\ UNCHANGED <<regVars, synVars, auxVars>>

\* the create-order response arrives and the rest of createRazorpayOrder runs:
\* try (126-149), catch (150-157), finally (158-160)
OrderResponse(resp) ==
  /\ orderInFlight > 0
  /\ resp \in HttpResponses
  /\ orderInFlight' = orderInFlight - 1
  /\ orderResp' = resp
  /\ loading' = FALSE
  /\ IF OrderErrorOf(resp) = Null
     THEN /\ order' = [id |-> "order_1", amount |-> amount,
                       paymentId |-> "payrec_1"]
          /\ stage' = "Payment ready"
          /\ toast' = [kind |-> "success",
                       msg |-> "Payment initialized successfully"]
          /\ UNCHANGED <<error, orderFailed>>
     ELSE /\ error' = OrderErrorOf(resp)
          /\ toast' = [kind |-> "error", msg |-> OrderErrorOf(resp)]
          /\ orderFailed' = TRUE
          /\ stage' = IF resp.net = "ok" /\ resp.ok
                      THEN "Processing order details..." ELSE stage
          /\ UNCHANGED order
  /\ UNCHANGED <<registrationId, token, amount, mounted, razorpay, script,
                 paymentLoading, scriptLoaded, lastDeps, widget, timers, hpc,
                 response, redirect, orderSent, orderSentUnloaded, verifySent,
                 handlerCalls, verifyResp>>
  /\ UNCHANGED <<regVars, synVars, auxVars>>

\* ------------------------------------------------------------------------
\* handlePay (page.tsx 167-293); throws: new Razorpay(options) or open() throws
\* ------------------------------------------------------------------------
\* mutant of handlePay: setPaymentLoading(true) is left out
HandlePay_NoLoadingFlag(throws) ==
  /\ PayAvailable
  /\ IF order = NoOrder
     THEN /\ toast' = [kind |-> "error", msg |-> "Payment order not initialized"]
          /\ UNCHANGED <<paymentLoading, stage, widget, timers>>
     ELSE IF ~razorpay
     THEN /\ toast' = [kind |-> "error",
                       msg |-> "Payment gateway not loaded. Please refresh the page."]
          /\ UNCHANGED <<paymentLoading, stage, widget, timers>>
     ELSE /\ stage' = "Opening payment gateway..."
          /\ IF throws
             THEN /\ paymentLoading' = FALSE
                  /\ toast' = [kind |-> "error",
                               msg |-> "Failed to open payment gateway"]
                  /\ UNCHANGED <<widget, timers>>
             ELSE /\ UNCHANGED paymentLoading
                  /\ widget' = "open"
                  \* setTimeout closes over this render's paymentLoading
                  /\ timers' = timers \cup {paymentLoading}
                  /\ UNCHANGED toast
  /\ UNCHANGED <<registrationId, token, amount, mounted, razorpay, script,
                 loading, order, scriptLoaded, error, lastDeps, orderInFlight,
                 hpc, response, redirect, orderSent, orderSentUnloaded,
                 orderFailed, orderResp, verifySent, handlerCalls, verifyResp>>
  /\ UNCHANGED <<regVars, synVars, auxVars>>

\* handlePay
HandlePay(throws) ==
  /\ PayAvailable
  /\ IF order = NoOrder
     THEN /\ toast' = [kind |-> "error", msg |-> "Payment order not initialized"]
          /\ UNCHANGED <<paymentLoading, stage, widget, timers>>
     ELSE IF ~razorpay
     THEN /\ toast' = [kind |-> "error",
                       msg |-> "Payment gateway not loaded. Please refresh the page."]
          /\ UNCHANGED <<paymentLoading, stage, widget, timers>>
     ELSE /\ stage' = "Opening payment gateway..."
          /\ IF throws
             THEN /\ paymentLoading' = FALSE
                  /\ toast' = [kind |-> "error",
                               msg |-> "Failed to open payment gateway"]
                  /\ UNCHANGED <<widget, timers>>
             ELSE /\ paymentLoading' = TRUE
                  /\ widget' = "open"
                  \* setTimeout closes over this render's paymentLoading
                  /\ timers' = timers \cup {paymentLoading}
                  /\ UNCHANGED toast
  /\ UNCHANGED <<registrationId, token, amount, mounted, razorpay, script,
                 loading, order, scriptLoaded, error, lastDeps, orderInFlight,
                 hpc, response, redirect, orderSent, orderSentUnloaded,
                 orderFailed, orderResp, verifySent, handlerCalls, verifyResp>>
  /\ UNCHANGED <<regVars, synVars, auxVars>>

\* the setTimeout callback of handlePay (page.tsx 283-287)
TimerFires(captured) ==
  /\ mounted
  /\ captured \in timers
  /\ timers' = timers \ {captured}
  /\ paymentLoading' = IF captured THEN FALSE ELSE paymentLoading
  /\ UNCHANGED <<registrationId, token, amount, mounted, razorpay, script,
                 loading, order, scriptLoaded, error, stage, lastDeps,
                 orderInFlight, widget, hpc, response, toast, redirect,
                 orderSent, orderSentUnloaded, orderFailed, orderResp, verifySent,
                 handlerCalls, verifyResp>>
  /\ UNCHANGED <<regVars, synVars, auxVars>>

\* mutant of ondismiss: the loading flag is left set
OnDismiss_KeepLoading ==
  /\ OnPage
  /\ widget = "open"
  /\ widget' = "closed"
  /\ toast' = [kind |-> "info", msg |-> "Payment cancelled"]
  /\ UNCHANGED <<registrationId, token, amount, mounted, razorpay, script,
                 loading, order, paymentLoading, scriptLoaded, error, stage,
                 lastDeps, orderInFlight, timers, hpc, response, redirect,
                 orderSent, orderSentUnloaded, orderFailed, orderResp, verifySent,
                 handlerCalls, verifyResp>>
  /\ UNCHANGED <<regVars, synVars, auxVars>>

\* modal.ondismiss (page.tsx 270-273): the user closes the checkout modal
OnDismiss ==
  /\ OnPage
  /\ widget = "open"
  /\ widget' = "closed"
  /\ paymentLoading' = FALSE
  /\ toast' = [kind |-> "info", msg |-> "Payment cancelled"]
  /\ UNCHANGED <<registrationId, token, amount, mounted, razorpay, script,
                 loading, order, scriptLoaded, error, stage, lastDeps,
                 orderInFlight, timers, hpc, response, redirect, orderSent,
                 orderSentUnloaded, orderFailed, orderResp, verifySent, handlerCalls,
                 verifyResp>>
  /\ UNCHANGED <<regVars, synVars, auxVars>>

\* ------------------------------------------------------------------------
\* options.handler (page.tsx 188-260): the widget's completion callback
\* ------------------------------------------------------------------------
\* the callback starts: stage, token, verify request sent (189-208)
Handler(payId) ==
  /\ OnPage
  /\ widget = "open"
  /\ payId \in PaymentIds
  /\ widget' = "closed"
  /\ response' = [razorpay_order_id |-> order.id, razorpay_payment_id |-> payId]
  /\ stage' = "Verifying payment..."
  /\ hpc' = "verifying"
  /\ verifySent' = verifySent + 1
  /\ handlerCalls' = handlerCalls + 1
  /\ UNCHANGED <<registrationId, token, amount, mounted, razorpay, script,
                 loading, order, paymentLoading, scriptLoaded, error, lastDeps,
                 orderInFlight, timers, toast, redirect, orderSent,
                 orderSentUnloaded, orderFailed, orderResp, verifyResp>>
  /\ UNCHANGED <<regVars, synVars, auxVars>>

\* which branch of the handler a verify response takes:
\*   "success"   verifyRes.ok and verifyData.success        (215-225)
\*   "rejected"  verifyRes.ok and not verifyData.success    (226-234)
\*   "httpfail"  not verifyRes.ok, body parsed              (235-245)
\*   "thrown"    fetch or Response.json() threw             (246-256)
VerifyBranch(resp) ==
  IF resp.net = "fail" \/ resp.body = "nonjson" THEN "thrown"
  ELSE IF ~resp.ok THEN "httpfail"
  ELSE IF resp.body \in {"success", "nodata"} THEN "success"
  ELSE "rejected"

\* router.push target of the HTTP-failure branch (240-244)
FailedTarget(resp) ==
  [route |-> "failed", registrationId |-> registrationId, paymentId |-> Null,
   message |-> IF resp.message # "" THEN resp.message
               ELSE "Payment verification failed"]

\* mutant: the success redirect carries the order id for the payment id
SuccessTarget_OrderId ==
  [route |-> "success", registrationId |-> registrationId,
   paymentId |-> response.razorpay_order_id, message |-> Null]

\* router.push target of the success branch (223-225)
SuccessTarget ==
  [route |-> "success", registrationId |-> registrationId,
   paymentId |-> response.razorpay_payment_id, message |-> Null]

\* the verify response arrives and the handler runs on (210-259)
VerifyResponse(resp) ==
  /\ hpc = "verifying"
  /\ resp \in HttpResponses
  /\ verifyResp' = resp
  /\ IF VerifyBranch(resp) = "success"
     THEN /\ stage' = "Payment successful! Redirecting..."
          /\ toast' = [kind |-> "success", msg |-> "Payment successful!"]
          /\ hpc' = "delay"
          /\ UNCHANGED <<redirect, paymentLoading>>
     ELSE IF VerifyBranch(resp) = "rejected"
     THEN /\ stage' = "Payment verification failed"
          /\ toast' = [kind |-> "error", msg |-> "Payment verification failed"]
          /\ redirect' = [route |-> "failed", registrationId |-> registrationId,
                          paymentId |-> response.razorpay_payment_id,
                          message |-> Null]
          /\ hpc' = "done"
          /\ paymentLoading' = FALSE
     ELSE IF VerifyBranch(resp) = "httpfail"
     THEN /\ stage' = "Payment verification error"
          /\ redirect' = FailedTarget(resp)
          /\ hpc' = "done"
          /\ paymentLoading' = FALSE
          /\ UNCHANGED toast
     ELSE /\ stage' = "Network error occurred"
          /\ toast' = [kind |-> "error", msg |-> "Network error occurred"]
          /\ redirect' = [route |-> "error", registrationId |-> registrationId,
                          paymentId |-> Null,
                          message |-> "Network error occurred"]
          /\ hpc' = "done"
          /\ paymentLoading' = FALSE
  /\ UNCHANGED <<registrationId, token, amount, mounted, razorpay, script,
                 loading, order, scriptLoaded, error, lastDeps, orderInFlight,
                 widget, timers, response, orderSent, orderSentUnloaded,
                 orderFailed, orderResp, verifySent, handlerCalls>>
  /\ UNCHANGED <<regVars, synVars, auxVars>>

\* the 800 ms pause is over: router.push and the finally block (220-225, 257-259)
SuccessRedirect ==
  /\ hpc = "delay"
  /\ hpc' = "done"
  /\ redirect' = SuccessTarget
  /\ paymentLoading' = FALSE
  /\ UNCHANGED <<registrationId, token, amount, mounted, razorpay, script,
                 loading, order, scriptLoaded, error, stage, lastDeps,
                 orderInFlight, widget, timers, response, toast, orderSent,
                 orderSentUnloaded, orderFailed, orderResp, verifySent, handlerCalls,
                 verifyResp>>
  /\ UNCHANGED <<regVars, synVars, auxVars>>

PayNext ==
  \/ Mount
  \/ ScriptOnload
  \/ ScriptOnerror
  \/ OrderEffect
  \/ \E resp \in HttpResponses : OrderResponse(resp)
  \/ \E throws \in BOOLEAN : HandlePay(throws)
  \/ \E captured \in BOOLEAN : TimerFires(captured)
  \/ OnDismiss
  \/ \E payId \in PaymentIds : Handler(payId)
  \/ \E resp \in HttpResponses : VerifyResponse(resp)
  \/ SuccessRedirect

PaySpec == PayInit /\ [][PayNext]_vars

(***************************************************************************)
(* Part I.  Properties of the payment page                                 *)
(***************************************************************************)
\* The orchestrator's state (spec 4.4) read off the page's state.  A stored
\* error or a redirect to a failure page is "failed" whatever else holds.
Phase ==
  IF error # Null \/ redirect.route \in {"failed", "error", "login", "dashboard"}
  THEN "failed"
  ELSE IF hpc = "delay" \/ redirect.route = "success" THEN "succeeded"
  ELSE IF hpc = "verifying" THEN "verifying"
  ELSE IF widget = "open" THEN "opening-widget"
  ELSE IF order # NoOrder THEN "ready"
  ELSE IF scriptLoaded THEN "creating-order"
  ELSE "loading-gateway"

\* the orchestrator's transitions: the chain of spec 4.4, the dismissal
\* edge, and failure from the phases that can fail
PhaseEdges ==
  { <<"loading-gateway", "creating-order">>, <<"creating-order", "ready">>,
    <<"ready", "opening-widget">>, <<"opening-widget", "verifying">>,
    <<"verifying", "succeeded">>, <<"verifying", "failed">>,
    <<"opening-widget", "ready">>,
    <<"loading-gateway", "failed">>, <<"creating-order", "failed">> }

\* a create-order exchange the claim counts as failed: exception (fetch or
\* body parsing threw), non-OK response, or a body without success/data
OrderExchangeFailed(resp) ==
  \/ resp.net = "fail"
  \/ ~resp.ok
  \/ resp.body \in {"nonjson", "failure", "nodata"}

\* a verify exchange that succeeded: HTTP success and success=true in the body
VerifySucceeded(resp) ==
  resp.net = "ok" /\ resp.ok /\ resp.body \in {"success", "nodata"}

\* C2: order creation and verification are never retried automatically: at
\* most one create-order request per visit, and at most one verify request
\* per completion callback.
C2_NoAutomaticRetry ==
  /\ orderSent <= 1
  /\ verifySent <= handlerCalls

\* C3: no create-order request is sent before the payment script is loaded.
C3_OrderOnlyAfterScriptLoaded ==
  /\ ~orderSentUnloaded
  /\ (orderInFlight > 0 => scriptLoaded)

\* C4: a failed order creation stores and displays its reason, and from then
\* on the pay action is blocked: the error never clears, the Pay button is
\* not available and the widget is never opened.
C4_OrderFailureBlocksPay ==
  /\ [][(orderInFlight' < orderInFlight /\ OrderExchangeFailed(orderResp'))
          => /\ orderFailed'
             /\ error' # Null
             /\ error' = toast'.msg
             /\ ErrorDisplayed']_vars
  /\ [](orderFailed => error # Null /\ ~PayAvailable /\ widget = "closed"
                       /\ handlerCalls = 0)
  /\ [][orderFailed => (orderFailed' /\ widget' = "closed")]_vars

\* C4 witness: an order creation failed, a later one produced an order, and
\* the error is what the page shows
C4_Witness ==
  orderFailed /\ ErrorDisplayed /\ order # NoOrder /\ razorpay

\* C5: after the completion callback, a non-success verify response leads to
\* the verification-failed route and message, a network error to the
\* network-error route and message; no verify request is repeated.
C5_VerifyFailureRouting ==
  /\ verifySent <= handlerCalls
  /\ (hpc = "done" /\ ~VerifySucceeded(verifyResp)) =>
       IF verifyResp.net = "fail"
       THEN /\ redirect.route = "error"
            /\ stage = "Network error occurred"
            /\ toast.msg = "Network error occurred"
       ELSE /\ redirect.route = "failed"
            /\ stage \in {"Payment verification failed",
                          "Payment verification error"}

\* C6: dismissing the widget returns to ready: the order is kept, there is no
\* error, the Pay button is available again, and nothing is sent.
C6_DismissReturnsToReady ==
  [][(widget = "open" /\ widget' = "closed" /\ handlerCalls' = handlerCalls)
       => /\ order' = order /\ order' # NoOrder
          /\ error' = Null
          /\ PayAvailable'
          /\ Phase' = "ready"
          /\ orderSent' = orderSent /\ orderInFlight' = orderInFlight
          /\ verifySent' = verifySent /\ hpc' = hpc
          /\ redirect' = redirect]_vars

\* C6 witness: the widget was dismissed and the Pay button is back
C6_Witness ==
  toast.msg = "Payment cancelled" /\ PayAvailable /\ Phase = "ready"

\* C7: when the verify call succeeds the flow is in succeeded, and the
\* redirect issued is the success route with the registration id and the
\* provider's payment id; success is reached only with the script loaded and
\* an order created.
C7_SuccessRedirectTarget ==
  /\ (hpc \in {"delay", "done"} /\ VerifySucceeded(verifyResp)) =>
       /\ Phase = "succeeded"
       /\ stage = "Payment successful! Redirecting..."
       /\ hpc = "done" =>
            /\ redirect.route = "success"
            /\ redirect.registrationId = registrationId
            /\ registrationId # Null
            /\ redirect.paymentId = response.razorpay_payment_id
            /\ redirect.paymentId \in PaymentIds
  /\ Phase = "succeeded" =>
       scriptLoaded /\ order # NoOrder /\ VerifySucceeded(verifyResp)

\* C7 witness: the success redirect was issued
C7_Witness ==
  hpc = "done" /\ redirect.route = "success"

\* C8: an HTTP failure of the verify call ends on the "failed" route with the
\* registration id and the response's error message (the generic one when
\* the response carries none).
C8_HttpFailureRoutesToFailed ==
  (hpc = "done" /\ verifyResp.net = "ok" /\ ~verifyResp.ok) =>
    /\ Phase = "failed"
    /\ redirect.route = "failed"
    /\ redirect.registrationId = registrationId
    /\ redirect.message = IF verifyResp.message # "" THEN verifyResp.message
                          ELSE "Payment verification failed"

PayIdle ==
  /\ registrationId = Null /\ token = "tok" /\ amount = 0
  /\ mounted = FALSE /\ razorpay = FALSE /\ script = "none"
  /\ loading = TRUE /\ order = NoOrder /\ paymentLoading = FALSE
  /\ scriptLoaded = FALSE /\ error = Null
  /\ stage = "Loading payment gateway..."
  /\ lastDeps = <<FALSE, Null>>
  /\ orderInFlight = 0 /\ widget = "closed" /\ timers = {} /\ hpc = "idle"
  /\ response = NoResponse /\ toast = NoToast /\ redirect = NoRedirect
  /\ orderSent = 0 /\ orderSentUnloaded = FALSE /\ orderFailed = FALSE
  /\ orderResp = NetFail /\ verifySent = 0 /\ handlerCalls = 0
  /\ verifyResp = NetFail

RegInit ==
  /\ currentEvent \in {Null, "ev1"}
  /\ serverForm \in ServerForms
  /\ step4Variant \in {"Signup", "part_004"}
  /\ RegInitStore
  /\ PayIdle
  /\ SynIdle
  /\ AuxIdle

\* ------------------------------------------------------------------------
\* Answer store operations (useRegistrationStore.ts)
\* ------------------------------------------------------------------------
\* updateBasicDetails(data) (197-200): { ...state.basicDetails, ...data };
\* every caller passes a whole record built by spreading a basicDetails
updateBasicDetails(bd, data) == data

\* index of the first answer with the given id, 0 for findIndex's -1
FindIndex(answers, id) ==
  IF \E i \in 1..Len(answers) : answers[i].id = id
  THEN CHOOSE i \in 1..Len(answers) :
         /\ answers[i].id = id
         /\ \A j \in 1..(i - 1) : answers[j].id # id
  ELSE 0

\* setDynamicFormFileUpload(id, file) (260-289); file is Undef for null
setDynamicFormFileUpload(bd, id, file) ==
  LET answers == bd.dynamicFormAnswers
      idx == FindIndex(answers, id)
      updatedUploads ==
        [bd.dynamicFormFileUploads EXCEPT
           ![id] = IF Truthy(file) THEN file ELSE Undef]
      updatedAnswers ==
        [i \in 1..Len(answers) |->
           IF i = idx
           THEN [answers[i] EXCEPT
                   !.value = IF IsFile(file) THEN NullV ELSE answers[i].value,
                   !.fileUrl = NullV]
           ELSE answers[i]]
  IN [bd EXCEPT !.dynamicFormAnswers = updatedAnswers,
                !.dynamicFormFileUploads = updatedUploads]

\* ------------------------------------------------------------------------
\* Step 1: schema synthesis (part_007 38-109)
\* ------------------------------------------------------------------------
IsFileField(field) ==
  field.type = "file" \/ (field.type = "input" /\ field.inputTypes = "file")

\* rule of a category additional field (72-82)
AdditionalRule(field) ==
  IF field.type = "upload" THEN "any"
  ELSE IF field.type = "checkbox" THEN "arrayOptional"
  ELSE "stringOptional"

\* rule of a dynamic field (86-106)
DynamicRule(field) ==
  IF IsFileField(field) THEN "any"
  ELSE IF field.type = "checkbox"
  THEN (IF field.required THEN "arrayMin1" ELSE "arrayOptional")
  ELSE (IF field.required THEN "stringMin1" ELSE "stringOptional")

\* the rule of every additional_/dynamic_ key, "absent" when the schema has
\* no such key; a dynamic descriptor later in the list overwrites an earlier one
createDynamicSchema(category, fields) ==
  [k \in FormKeys |->
     IF /\ k[1] = "additional"
        /\ category.needAdditionalInfo
        /\ \E f \in Range(category.additionalFields) : f.id = k[2]
     THEN AdditionalRule(CHOOSE f \in Range(category.additionalFields) :
                           f.id = k[2])
     ELSE IF k[1] = "dynamic" /\ \E f \in Range(fields) : f.id = k[2]
     THEN DynamicRule(CHOOSE f \in Range(fields) : f.id = k[2])
     ELSE "absent"]

\* whether zod accepts a value under a rule
RuleOK(rule, x) ==
  CASE rule = "any" -> TRUE
    [] rule = "arrayOptional" -> IsArray(x) \/ x = Undef
    [] rule = "arrayMin1" -> IsArray(x) /\ Len(x.v) >= 1
    [] rule = "stringOptional" -> IsString(x) \/ x = Undef
    [] rule = "stringMin1" -> IsString(x) /\ x.v # ""
    [] OTHER -> TRUE

\* zodResolver(dynamicSchema) accepts the form (155)
FormValid ==
  /\ formBase = "filled"
  /\ formCategory # NoCategory
  /\ \A k \in FormKeys :
       dynamicSchema[k] # "absent" => RuleOK(dynamicSchema[k], formValues[k])

\* the parsed data handed to onSubmit: keys the schema does not have are
\* stripped
Data(k) == IF dynamicSchema[k] = "absent" THEN Undef ELSE formValues[k]

\* ------------------------------------------------------------------------
\* Step 1: prefill effect (part_007 177-209) for a basicDetails and a field
\* list, given the selectedCategory and dynamicSchema state it runs on
\* ------------------------------------------------------------------------
PrefillValues(bd) ==
  LET answers == bd.dynamicFormAnswers
      hits(k) == {i \in 1..Len(answers) : answers[i].id = k[2]}
      last(k) == CHOOSE i \in hits(k) : \A j \in hits(k) : j <= i
  IN [k \in FormKeys |->
        IF k[1] = "additional" THEN bd.additionalAnswers[k[2]]
        ELSE IF hits(k) # {} THEN answers[last(k)].value
        ELSE Undef]

Prefill(bd, fields, sel, schema) ==
  [base |-> IF bd.fullName = "" THEN "empty" ELSE "filled",
   category |-> bd.registrationCategory,
   values |-> PrefillValues(bd),
   selected |-> IF bd.registrationCategory # NoCategory
                THEN bd.registrationCategory ELSE sel,
   schema |-> IF bd.registrationCategory # NoCategory
              THEN createDynamicSchema(bd.registrationCategory, fields)
              ELSE schema]

\* the component state after the effect
SetForm(p) ==
  /\ formBase' = p.base
  /\ formCategory' = p.category
  /\ formValues' = p.values
  /\ selectedCategory' = p.selected
  /\ dynamicSchema' = p.schema

\* Step1BasicDetails is mounted (139-174) and its prefill effect runs; the
\* dynamic-form fetch of the mount is started (218-275)
MountStep1(bd, fields) ==
  /\ SetForm(Prefill(bd, fields, NoCategory,
                     createDynamicSchema(NoCategory, fields)))
  /\ formFetched' = FALSE

\* Step1BasicDetails is unmounted: its state is gone
UnmountStep1 ==
  /\ formBase' = "empty"
  /\ formCategory' = NoCategory
  /\ formValues' = [k \in FormKeys |-> Undef]
  /\ selectedCategory' = NoCategory
  /\ dynamicSchema' = EmptySchema
  /\ formFetched' = FALSE

step1State == <<formBase, formCategory, formValues, selectedCategory,
                dynamicSchema, formFetched>>
step4State == <<regLoading, regError, regInFlight, regRedirect>>
eventState == <<currentEvent, serverForm, step4Variant>>

\* the wizard is still shown: no router.push to the payment page yet
OnWizard == regRedirect = Null

\* ------------------------------------------------------------------------
\* Wizard navigation supplied by the parent page to the steps as the props
\* onNext and onBack
\* ------------------------------------------------------------------------
OnNext ==
  /\ currentStep' = currentStep + 1
  /\ UnmountStep1

\* Step4ConfirmPay is unmounted: its state is gone, and the requests it sent
\* complete without it
UnmountStep4 ==
  /\ regLoading' = FALSE
  /\ regError' = NoMsg
  /\ regInFlight' = [n \in Slots |-> [regInFlight[n] EXCEPT !.live = FALSE]]

\* the wizard shows the form step again, for the given store contents
OnBack(bd) ==
  /\ currentStep' = 1
  /\ IF currentStep = 1
     THEN UNCHANGED step1State
     ELSE MountStep1(bd, dynamicFormFields)

\* steps 2 and 3 (accompanying persons, workshops) are passed through
StepForward ==
  /\ OnWizard
  /\ currentStep \in {2, 3}
  /\ currentStep' = currentStep + 1
  /\ UNCHANGED <<eventState, basicDetails, dynamicFormFields, step1State,
                 step4State>>
  /\ regToast' = NoMsg
  /\ UNCHANGED <<payVars, synVars, auxVars>>

\* the lowest free request slot
\* the requests still awaited, in the order sent
Awaited(inFlight) ==
  LET s == SelectSeq(inFlight, LAMBDA r : r # NoRequest)
  IN [n \in Slots |-> IF n <= Len(s) THEN s[n] ELSE NoRequest]
FreeSlot == CHOOSE n \in Slots :
              /\ regInFlight[n] = NoRequest
              /\ \A m \in Slots : regInFlight[m] = NoRequest => n <= m

\* ------------------------------------------------------------------------
\* Step 1: dynamic-form fetch (part_007 218-275)
\* ------------------------------------------------------------------------
\* type "input" with inputTypes "file" becomes type "file" (247-256)
TransformField(field) ==
  IF field.type = "input" /\ field.inputTypes = "file"
  THEN [field EXCEPT !.type = "file"]
  ELSE field

\* the response arrives; ok: response.ok with success and data.fields
FetchDynamicFormResponse(ok) ==
  /\ OnWizard
  /\ currentEvent # Null
  /\ ~formFetched
  /\ formFetched' = TRUE
  /\ IF ok
     THEN LET fields == [i \in 1..Len(serverForm) |->
                           TransformField(serverForm[i])]
          IN /\ dynamicFormFields' = fields
             /\ IF currentStep = 1
                THEN SetForm(Prefill(basicDetails, fields, selectedCategory,
                                     dynamicSchema))
                ELSE UNCHANGED <<formBase, formCategory, formValues,
                                 selectedCategory, dynamicSchema>>
     ELSE UNCHANGED <<dynamicFormFields, formBase, formCategory, formValues,
                      selectedCategory, dynamicSchema>>
  /\ UNCHANGED <<eventState, currentStep, basicDetails, step4State>>
  /\ regToast' = NoMsg
  /\ UNCHANGED <<payVars, synVars, auxVars>>

\* ------------------------------------------------------------------------
\* Step 1: the user fills the form
\* ------------------------------------------------------------------------
\* the profile inputs and the terms box get valid values (register, 154-174)
FillBase ==
  /\ OnWizard
  /\ currentStep = 1
  /\ formBase = "empty"
  /\ formBase' = "filled"
  /\ UNCHANGED <<eventState, currentStep, basicDetails, dynamicFormFields,
                 formCategory, formValues, selectedCategory, dynamicSchema,
                 formFetched, step4State>>
  /\ regToast' = NoMsg
  /\ UNCHANGED <<payVars, synVars, auxVars>>

\* handleCategorySelect (part_007 410-426); the categories are listed once
\* fetched for the current event (611-616)
handleCategorySelect(category) ==
  /\ OnWizard
  /\ currentStep = 1
  /\ currentEvent # Null
  /\ selectedCategory' = category
  /\ formCategory' = category
  /\ dynamicSchema' = createDynamicSchema(category, dynamicFormFields)
  /\ formValues' =
       [k \in FormKeys |->
          IF /\ k[1] = "additional"
             /\ category.needAdditionalInfo
             /\ \E f \in Range(category.additionalFields) : f.id = k[2]
          THEN LET f == CHOOSE f \in Range(category.additionalFields) :
                          f.id = k[2]
               IN IF f.type = "checkbox" THEN Arr(<<>>) ELSE Str("")
          ELSE formValues[k]]
  /\ UNCHANGED <<eventState, currentStep, basicDetails, dynamicFormFields,
                 formBase, formFetched, step4State>>
  /\ regToast' = NoMsg
  /\ UNCHANGED <<payVars, synVars, auxVars>>

\* the additional fields rendered (part_007 436-442)
RenderedAdditional ==
  IF selectedCategory.needAdditionalInfo
  THEN Range(selectedCategory.additionalFields) ELSE {}

\* watch(fieldKey) || []
CurrentValues(k) == IF Truthy(formValues[k]) THEN formValues[k].v ELSE <<>>

\* currentValues.filter(v => v !== option)
Without(a, option) ==
  LET keep == {i \in 1..Len(a) : a[i] # option}
      F[i \in 0..Len(a)] ==
        IF i = 0 THEN <<>>
        ELSE IF i \in keep THEN Append(F[i - 1], a[i]) ELSE F[i - 1]
  IN F[Len(a)]

\* onChange of a checkbox option: the box is ticked when the option is not
\* selected, cleared when it is
ToggleValue(k, option) ==
  IF option \in Range(CurrentValues(k))
  THEN Arr(Without(CurrentValues(k), option))
  ELSE Arr(Append(CurrentValues(k), option))

\* a checkbox of an additional field (part_007 533-561)
ToggleAdditionalCheckbox(field, option) ==
  /\ OnWizard
  /\ currentStep = 1
  /\ field \in RenderedAdditional
  /\ field.type = "checkbox"
  /\ option \in Range(field.options)
  /\ IsArray(formValues[AddKey(field.id)]) \/ ~Truthy(formValues[AddKey(field.id)])
  /\ formValues' = [formValues EXCEPT ![AddKey(field.id)] =
                      ToggleValue(AddKey(field.id), option)]
  /\ UNCHANGED <<eventState, currentStep, basicDetails, dynamicFormFields,
                 formBase, formCategory, selectedCategory, dynamicSchema,
                 formFetched, step4State>>
  /\ regToast' = NoMsg
  /\ UNCHANGED <<payVars, synVars, auxVars>>

\* the file input of an additional upload field (part_007 566-586)
ChooseAdditionalFile(field, size) ==
  /\ OnWizard
  /\ currentStep = 1
  /\ field \in RenderedAdditional
  /\ field.type = "upload"
  /\ IF size = "big"
     THEN /\ regToast' = Msg(<<"File exceeds 5MB limit.">>, {"File"}, {"file"})
          /\ UNCHANGED formValues
     ELSE /\ formValues' = [formValues EXCEPT ![AddKey(field.id)] =
                              FileOf(size)]
          /\ regToast' = NoMsg
  /\ UNCHANGED <<eventState, currentStep, basicDetails, dynamicFormFields,
                 formBase, formCategory, selectedCategory, dynamicSchema,
                 formFetched, step4State>>
  /\ UNCHANGED <<payVars, synVars, auxVars>>

\* a text input of the dynamic form (part_009 150-162)
TypeDynamicText(field, text) ==
  /\ OnWizard
  /\ currentStep = 1
  /\ field \in Range(dynamicFormFields)
  /\ ~IsFileField(field) /\ field.type # "checkbox"
  /\ formValues' = [formValues EXCEPT ![DynKey(field.id)] = Str(text)]
  /\ UNCHANGED <<eventState, currentStep, basicDetails, dynamicFormFields,
                 formBase, formCategory, selectedCategory, dynamicSchema,
                 formFetched, step4State>>
  /\ regToast' = NoMsg
  /\ UNCHANGED <<payVars, synVars, auxVars>>

\* a checkbox of the dynamic form (part_009 222-252); no descriptor sets
\* maxSelected
ToggleDynamicCheckbox(field, option) ==
  /\ OnWizard
  /\ currentStep = 1
  /\ field \in Range(dynamicFormFields)
  /\ field.type = "checkbox"
  /\ option \in Range(field.options)
  /\ IsArray(formValues[DynKey(field.id)]) \/ ~Truthy(formValues[DynKey(field.id)])
  /\ formValues' = [formValues EXCEPT ![DynKey(field.id)] =
                      ToggleValue(DynKey(field.id), option)]
  /\ UNCHANGED <<eventState, currentStep, basicDetails, dynamicFormFields,
                 formBase, formCategory, selectedCategory, dynamicSchema,
                 formFetched, step4State>>
  /\ regToast' = NoMsg
  /\ UNCHANGED <<payVars, synVars, auxVars>>

\* handleDynamicFileUpload (part_007 429-433) followed by the prefill effect
\* that the changed basicDetails triggers (177-209)
handleDynamicFileUpload(id, file) ==
  LET bd == setDynamicFormFileUpload(basicDetails, id, file)
  IN /\ basicDetails' = bd
     /\ SetForm(Prefill(bd, dynamicFormFields, selectedCategory,
                        dynamicSchema))

\* handleFileChange (part_009 57-111); the descriptors set neither
\* maxFileSize nor fileUploadTypes
handleFileChange(field, size) ==
  /\ OnWizard
  /\ currentStep = 1
  /\ field \in Range(dynamicFormFields)
  /\ IsFileField(field)
  /\ IF size = "big"
     THEN /\ regToast' = Msg(<<"File size exceeds 5MB limit">>,
                             {"File", "size"}, {"file", "size"})
          /\ UNCHANGED <<basicDetails, formBase, formCategory, formValues,
                         selectedCategory, dynamicSchema>>
     ELSE /\ handleDynamicFileUpload(field.id, FileOf(size))
          /\ regToast' = Msg(<<"File uploaded: ">>, {"File"}, {"file"})
  /\ UNCHANGED <<eventState, currentStep, dynamicFormFields, formFetched,
                 step4State>>
  /\ UNCHANGED <<payVars, synVars, auxVars>>

\* removeFile (part_008 98-102), the button shown while a file is attached
\* (part_008 263-273)
removeFile(field) ==
  /\ OnWizard
  /\ currentStep = 1
  /\ field \in Range(dynamicFormFields)
  /\ IsFileField(field)
  /\ IsFile(basicDetails.dynamicFormFileUploads[field.id])
  /\ handleDynamicFileUpload(field.id, Undef)
  /\ UNCHANGED <<eventState, currentStep, dynamicFormFields, formFetched,
                 step4State>>
  /\ regToast' = NoMsg
  /\ UNCHANGED <<payVars, synVars, auxVars>>

\* ------------------------------------------------------------------------
\* Step 1: onSubmit, the normalizer (part_007 277-408)
\* ------------------------------------------------------------------------
\* a normalizer that keeps no text for an upload field
NormalizeAdditional_DropUrl(field, value) ==
  IF field.type = "upload" THEN Str("")
  ELSE IF field.type = "checkbox"
  THEN (IF IsArray(value) THEN value
        ELSE IF IsString(value) THEN Arr(<<value.v>>)
        ELSE Arr(<<>>))
  ELSE OrEmpty(value)

\* additionalAnswers[field.id] for the parsed form value (290-315)
NormalizeAdditional(field, value) ==
  IF field.type = "upload"
  THEN (IF IsFile(value) THEN Str("")
        ELSE IF IsString(value) /\ value.v # "" THEN value
        ELSE Str(""))
  ELSE IF field.type = "checkbox"
  THEN (IF IsArray(value) THEN value
        ELSE IF IsString(value) THEN Arr(<<value.v>>)
        ELSE Arr(<<>>))
  ELSE OrEmpty(value)

\* [value].filter(Boolean)
FilterBoolean(value) == IF Truthy(value) THEN Arr(<<value.v>>) ELSE Arr(<<>>)

\* the answer pushed for a dynamic field (329-369)
DynamicAnswer(field, value, existingFile) ==
  [id |-> field.id, label |-> field.label, type |-> field.type,
   required |-> field.required,
   value |-> IF IsFileField(field)
             THEN (IF IsFile(existingFile) THEN Str("")
                   ELSE IF Truthy(value) /\ IsString(value) THEN value
                   ELSE Str(""))
             ELSE IF field.type = "checkbox"
             THEN (IF IsArray(value) THEN value ELSE FilterBoolean(value))
             ELSE OrEmpty(value),
   fileUrl |-> IF /\ IsFileField(field)
                  /\ ~IsFile(existingFile)
                  /\ Truthy(value) /\ IsString(value)
               THEN value ELSE Str(""),
   inputTypes |-> field.inputTypes,
   options |-> field.options]

\* the record handed to updateBasicDetails (381-404)
NormalizedDetails(bd) ==
  LET category == formCategory
      fieldOf(id) == CHOOSE f \in Range(category.additionalFields) : f.id = id
      has(id) == /\ category.needAdditionalInfo
                 /\ \E f \in Range(category.additionalFields) : f.id = id
      additionalAnswers ==
        [id \in AddIds |->
           IF has(id) THEN NormalizeAdditional(fieldOf(id), Data(AddKey(id)))
           ELSE Undef]
      fileUploads ==
        [id \in AddIds |->
           IF has(id) /\ fieldOf(id).type = "upload" /\ IsFile(Data(AddKey(id)))
           THEN Data(AddKey(id)) ELSE Undef]
      dynamicFormAnswers ==
        [i \in 1..Len(dynamicFormFields) |->
           DynamicAnswer(dynamicFormFields[i],
                         Data(DynKey(dynamicFormFields[i].id)),
                         bd.dynamicFormFileUploads[dynamicFormFields[i].id])]
      dynamicFileUploads ==
        [id \in DynIds |->
           IF /\ \E f \in Range(dynamicFormFields) : f.id = id /\ IsFileField(f)
              /\ IsFile(bd.dynamicFormFileUploads[id])
           THEN bd.dynamicFormFileUploads[id] ELSE Undef]
  IN [bd EXCEPT !.fullName = "Dr Who", !.email = "who@example.org",
                !.phone = "9999999999",
                !.registrationCategory = category,
                !.additionalAnswers = additionalAnswers,
                !.fileUploads = fileUploads,
                !.dynamicFormAnswers = dynamicFormAnswers,
                !.dynamicFormFileUploads = dynamicFileUploads,
                !.eventId = IF currentEvent = Null THEN "" ELSE currentEvent,
                !.eventName = IF currentEvent = Null THEN "" ELSE "Event One"]

\* the form is submitted and passes the resolver: handleSubmit(onSubmit) (764)
Step1Submit ==
  /\ OnWizard
  /\ currentStep = 1
  /\ FormValid
  /\ basicDetails' = updateBasicDetails(basicDetails,
                                        NormalizedDetails(basicDetails))
  /\ regToast' = Msg(<<"Details saved!">>, {}, {})
  /\ OnNext
  /\ UNCHANGED <<eventState, dynamicFormFields, step4State>>
  /\ UNCHANGED <<payVars, synVars, auxVars>>

\* ------------------------------------------------------------------------
\* Editing: the store is loaded with a registration made earlier, whose file
\* fields carry the URLs of the files already uploaded
\* ------------------------------------------------------------------------
ExistingDetails(category, fields) ==
  LET fieldOf(id) == CHOOSE f \in Range(category.additionalFields) : f.id = id
      has(id) == /\ category.needAdditionalInfo
                 /\ \E f \in Range(category.additionalFields) : f.id = id
  IN [InitialBasicDetails EXCEPT
        !.fullName = "Dr Who", !.email = "who@example.org",
        !.phone = "9999999999", !.eventId = currentEvent,
        !.eventName = "Event One",
        !.registrationCategory = category,
        !.additionalAnswers =
           [id \in AddIds |->
              IF ~has(id) THEN Undef
              ELSE IF fieldOf(id).type = "upload" THEN Str(ExistingUrl)
              ELSE Arr(<<>>)],
        !.dynamicFormAnswers =
           [i \in 1..Len(fields) |->
              DynamicAnswer(fields[i],
                            IF IsFileField(fields[i]) THEN Str(ExistingUrl)
                            ELSE IF fields[i].type = "checkbox"
                            THEN Arr(<<fields[i].options[1]>>)
                            ELSE Str("Dr Who"),
                            Undef)]]

EditExistingRegistration(category) ==
  /\ OnWizard
  /\ currentStep = 1
  /\ currentEvent # Null
  /\ formFetched
  /\ basicDetails = InitialBasicDetails
  /\ basicDetails' = ExistingDetails(category, dynamicFormFields)
  /\ SetForm(Prefill(basicDetails', dynamicFormFields, selectedCategory,
                     dynamicSchema))
  /\ UNCHANGED <<eventState, currentStep, dynamicFormFields, formFetched,
                 step4State>>
  /\ regToast' = NoMsg
  /\ UNCHANGED <<payVars, synVars, auxVars>>

\* ------------------------------------------------------------------------
\* Step 4: messages
\* ------------------------------------------------------------------------
\* message member of an error response body
SrvFileRequired ==
  Msg(<<"ID Proof file is required">>, {"required"}, {"file", "required"})
SrvAlready ==
  Msg(<<"User already registered">>, {"already registered"},
      {"already registered"})
RegServerMessages == {NoMsg, SrvFileRequired, SrvAlready}

CompleteDetailsMsg ==
  Msg(<<"Please complete all required details before submitting.">>,
      {"required"}, {"required"})
AlreadyMsg ==
  Msg(<<"You are already registered for this event">>,
      {"already registered"}, {"already registered"})
RegistrationFailedMsg ==
  Msg(<<"Registration failed. Please try again.">>, {}, {})
RegFetchError == Msg(<<"Failed to fetch">>, {}, {})
RegJsonError == Msg(<<"Unexpected token < in JSON at position 0">>, {}, {})
NoIdMsg == Msg(<<"No registration ID received">>, {}, {})
\* `Please upload the following required files: ${missingFiles.join(", ")}`
MissingFilesMsg(labels) ==
  Msg(<<"Please upload the following required files: ">> \o labels,
      {"upload", "required"}, {"upload", "required", "file"})
\* `File "${field.label}" exceeds 5MB limit. Please upload a smaller file.`
TooLargeMsg(label) ==
  Msg(<<"File \"", label, "\" exceeds 5MB limit. Please upload a smaller file.">>,
      {"File", "upload"}, {"file", "upload"})

\* a registration response as the handlers can tell it apart:
\*   body "html"    an HTML error page
\*        "nonjson" other text that is not JSON
\*        "success" { success: true, data: { _id } }
\*        "noid"    { success: true } without data._id
\*        "failure" { success: false, message? }
RegResponses ==
  {[net |-> "fail", ok |-> FALSE, body |-> "nonjson", message |-> NoMsg]}
  \cup [net : {"ok"}, ok : {FALSE}, body : {"failure"},
        message : RegServerMessages]
  \cup [net : {"ok"}, ok : {FALSE, TRUE}, body : {"html"}, message : {NoMsg}]
  \cup [net : {"ok"}, ok : {TRUE},
        body : {"nonjson", "success", "noid", "failure"}, message : {NoMsg}]
NewRegistrationId == "reg1"

\* the guard both handlers open with (Signup.tsx 1044-1054, part_004 33-43)
Incomplete(bd) ==
  \/ bd.eventId = "" \/ bd.eventName = "" \/ bd.fullName = ""
  \/ bd.email = "" \/ bd.phone = "" \/ bd.registrationCategory._id = ""

\* the additional fields both handlers walk (Signup.tsx 1149-1154,
\* part_004 176-181)
WalkedAdditional(bd) ==
  IF bd.registrationCategory.needAdditionalInfo
  THEN bd.registrationCategory.additionalFields ELSE <<>>

\* a payload object: its members, and which of them JSON.stringify emits
Obj(id, label, type, required, value, fileUrl, inputTypes, options, keys) ==
  [id |-> id, label |-> label, type |-> type, required |-> required,
   value |-> value, fileUrl |-> fileUrl, inputTypes |-> inputTypes,
   options |-> options, keys |-> keys]

\* ------------------------------------------------------------------------
\* Step 4, Signup.tsx: handleSubmit up to its fetch (1043-1229)
\* ------------------------------------------------------------------------
\* the object pushed for a stored dynamic answer (1098-1128)
SignupDynamicObj(answer, file) ==
  Obj(answer.id, answer.label, answer.type, answer.required,
      IF answer.type = "input" /\ answer.inputTypes = "file"
      THEN (IF IsFile(file) THEN NullV ELSE answer.value)
      ELSE IF answer.type = "checkbox"
      THEN (IF IsArray(answer.value) THEN Str(Join(answer.value.v))
            ELSE answer.value)
      ELSE answer.value,
      NullV, "", <<>>,
      {"id", "label", "type", "required", "value", "fileUrl"})

\* the object pushed for an additional field (1155-1201)
SignupAdditionalObj(field, fieldValue, file) ==
  Obj(field.id, field.label, field.type, FALSE,
      IF field.type = "upload"
      THEN (IF IsFile(file) THEN NullV
            ELSE IF Truthy(fieldValue) THEN fieldValue
            ELSE NullV)
      ELSE IF field.type = "checkbox"
      THEN Str(Join(IF IsArray(fieldValue) THEN fieldValue.v ELSE <<>>))
      ELSE OrEmpty(fieldValue),
      NullV, "", <<>>,
      {"id", "label", "type", "value", "fileUrl"})

\* missingFiles after the walk (1147, 1188-1191)
MissingFiles(bd) ==
  LET fields == WalkedAdditional(bd)
      miss(i) == /\ fields[i].type = "upload"
                 /\ ~IsFile(bd.fileUploads[fields[i].id])
                 /\ ~Truthy(bd.additionalAnswers[fields[i].id])
      F[i \in 0..Len(fields)] ==
        IF i = 0 THEN <<>>
        ELSE IF miss(i) THEN Append(F[i - 1], fields[i].label) ELSE F[i - 1]
  IN F[Len(fields)]

\* the error the try block throws before the fetch, NoMsg when none: the
\* size check inside the walk (1170-1176), the missing-file check after it
\* (1205-1212)
SignupThrown(bd) ==
  LET fields == WalkedAdditional(bd)
      big == {i \in 1..Len(fields) :
                /\ fields[i].type = "upload"
                /\ IsFile(bd.fileUploads[fields[i].id])
                /\ bd.fileUploads[fields[i].id].v = "big"}
  IN IF big # {}
     THEN TooLargeMsg(fields[CHOOSE i \in big : \A j \in big : i <= j].label)
     ELSE IF Len(MissingFiles(bd)) > 0 THEN MissingFilesMsg(MissingFiles(bd))
     ELSE NoMsg

\* the multipart body (1060-1215)
SignupRequest(bd) ==
  LET answers == bd.dynamicFormAnswers
      fields == WalkedAdditional(bd)
  IN [files |->
        {<<"file_dyn", answers[i].id>> : i \in
           {j \in 1..Len(answers) :
              /\ answers[j].type = "input" /\ answers[j].inputTypes = "file"
              /\ IsFile(bd.dynamicFormFileUploads[answers[j].id])}}
        \cup
        {<<"file", fields[i].id>> : i \in
           {j \in 1..Len(fields) :
              /\ fields[j].type = "upload"
              /\ IsFile(bd.fileUploads[fields[j].id])}},
      parts |-> {"additionalAnswers"} \cup
                (IF Len(answers) > 0 THEN {"dynamicFormAnswers"} ELSE {}),
      additionalAnswers |->
        [i \in 1..Len(fields) |->
           SignupAdditionalObj(fields[i], bd.additionalAnswers[fields[i].id],
                               bd.fileUploads[fields[i].id])],
      dynamicFormAnswers |->
        [i \in 1..Len(answers) |->
           SignupDynamicObj(answers[i],
                            bd.dynamicFormFileUploads[answers[i].id])]]

\* a catch block that only shows the toast
SignupCatch_ToastOnly(msg) == [toast |-> msg, back |-> FALSE]

\* the catch block (1297-1320): the toast it shows and whether it calls
\* onBack()
SignupCatch(msg) ==
  IF \/ Includes(msg, "File") \/ Includes(msg, "upload")
     \/ Includes(msg, "size") \/ Includes(msg, "type")
  THEN [toast |-> msg, back |-> TRUE]
  ELSE IF Includes(msg, "already registered")
  THEN [toast |-> AlreadyMsg, back |-> FALSE]
  ELSE [toast |-> IF msg.text = <<>>
                  THEN Msg(<<"Something went wrong">>, {}, {}) ELSE msg,
        back |-> FALSE]

\* the Confirm button (1568-1569, disabled while loading) runs handleSubmit
Signup_handleSubmit ==
  /\ step4Variant = "Signup"
  /\ OnWizard
  /\ currentStep = 4
  /\ ~regLoading
  /\ \E n \in Slots : regInFlight[n] = NoRequest
  /\ LET bd == basicDetails
         thrown == SignupThrown(bd)
         c == SignupCatch(thrown)
     IN IF Incomplete(bd)
        THEN /\ regToast' = CompleteDetailsMsg
             /\ UNCHANGED <<currentStep, step1State, regLoading, regError,
                            regInFlight>>
        ELSE IF thrown # NoMsg
        THEN /\ regToast' = c.toast
             /\ IF c.back
                THEN OnBack(bd) /\ UnmountStep4
                ELSE /\ regLoading' = FALSE
                     /\ UNCHANGED <<currentStep, step1State, regError,
                                    regInFlight>>
        ELSE /\ regLoading' = TRUE
             /\ regInFlight' =
                  [regInFlight EXCEPT ![FreeSlot] =
                     [handler |-> "Signup", closure |-> bd, live |-> TRUE]]
             /\ regToast' = NoMsg
             /\ UNCHANGED <<currentStep, step1State, regError>>
  /\ UNCHANGED <<eventState, basicDetails, dynamicFormFields, regRedirect>>
  /\ UNCHANGED <<payVars, synVars, auxVars>>

\* ------------------------------------------------------------------------
\* Step 4, part_004: handleSubmit up to its fetch (32-232)
\* ------------------------------------------------------------------------
\* the object pushed for a stored dynamic answer (94-143)
Part004DynamicObj(answer, file) ==
  LET isFileField == IsFileField(answer)
      url == /\ isFileField /\ ~IsFile(file)
             /\ Truthy(answer.value) /\ IsString(answer.value)
  IN Obj(answer.id, answer.label, answer.type, answer.required,
         IF isFileField THEN (IF url THEN answer.value ELSE Undef)
         ELSE IF answer.type = "checkbox"
         THEN (IF IsArray(answer.value) THEN answer.value
               ELSE FilterBoolean(answer.value))
         ELSE OrEmpty(answer.value),
         IF url THEN answer.value ELSE Undef,
         answer.inputTypes, answer.options,
         {"id", "label", "type", "required", "options"}
         \cup (IF ~isFileField \/ url THEN {"value"} ELSE {})
         \cup (IF url THEN {"fileUrl"} ELSE {})
         \cup (IF answer.inputTypes # "" /\ ~isFileField
               THEN {"inputTypes"} ELSE {}))

\* the object pushed for an additional field (182-211)
Part004AdditionalObj(field, fieldValue, file) ==
  LET url == /\ ~IsFile(file) /\ Truthy(fieldValue) /\ IsString(fieldValue)
  IN Obj(field.id, field.label, field.type, FALSE,
         IF field.type = "upload"
         THEN (IF url THEN fieldValue ELSE Str(""))
         ELSE IF field.type = "checkbox"
         THEN (IF IsArray(fieldValue) THEN fieldValue ELSE OrEmpty(fieldValue))
         ELSE OrEmpty(fieldValue),
         IF field.type = "upload"
         THEN (IF url THEN fieldValue ELSE Str(""))
         ELSE NullV,
         "", <<>>,
         {"id", "label", "type", "value", "fileUrl"})

\* the multipart body (49-221)
Part004Request(bd) ==
  LET answers == bd.dynamicFormAnswers
      fields == WalkedAdditional(bd)
  IN [files |->
        {<<"file_dyn", answers[i].id>> : i \in
           {j \in 1..Len(answers) :
              /\ IsFileField(answers[j])
              /\ IsFile(bd.dynamicFormFileUploads[answers[j].id])}}
        \cup
        {<<"file", fields[i].id>> : i \in
           {j \in 1..Len(fields) :
              /\ fields[j].type = "upload"
              /\ IsFile(bd.fileUploads[fields[j].id])}},
      parts |-> {"additionalAnswers"} \cup
                (IF Len(answers) > 0 THEN {"dynamicFormAnswers"} ELSE {}),
      additionalAnswers |->
        [i \in 1..Len(fields) |->
           Part004AdditionalObj(fields[i], bd.additionalAnswers[fields[i].id],
                                bd.fileUploads[fields[i].id])],
      dynamicFormAnswers |->
        [i \in 1..Len(answers) |->
           Part004DynamicObj(answers[i],
                             bd.dynamicFormFileUploads[answers[i].id])]]

\* handleSubmit reachable through a button that stays enabled while loading
Part004_handleSubmit_ButtonEnabled ==
  /\ step4Variant = "part_004"
  /\ OnWizard
  /\ currentStep = 4
  /\ \E n \in Slots : regInFlight[n] = NoRequest
  /\ LET bd == basicDetails
     IN IF Incomplete(bd)
        THEN /\ regToast' = CompleteDetailsMsg
             /\ UNCHANGED <<regLoading, regError, regInFlight>>
        ELSE /\ regLoading' = TRUE
             /\ regError' = NoMsg
             /\ regInFlight' =
                  [regInFlight EXCEPT ![FreeSlot] =
                     [handler |-> "part_004", closure |-> bd, live |-> TRUE]]
             /\ regToast' = NoMsg
  /\ UNCHANGED <<eventState, currentStep, basicDetails, dynamicFormFields,
                 step1State, regRedirect>>
  /\ UNCHANGED <<payVars, synVars, auxVars>>

\* the submit button (568-571, disabled while loading) runs handleSubmit
Part004_handleSubmit ==
  /\ step4Variant = "part_004"
  /\ OnWizard
  /\ currentStep = 4
  /\ ~regLoading
  /\ \E n \in Slots : regInFlight[n] = NoRequest
  /\ LET bd == basicDetails
     IN IF Incomplete(bd)
        THEN /\ regToast' = CompleteDetailsMsg
             /\ UNCHANGED <<regLoading, regError, regInFlight>>
        ELSE /\ regLoading' = TRUE
             /\ regError' = NoMsg
             /\ regInFlight' =
                  [regInFlight EXCEPT ![FreeSlot] =
                     [handler |-> "part_004", closure |-> bd, live |-> TRUE]]
             /\ regToast' = NoMsg
  /\ UNCHANGED <<eventState, currentStep, basicDetails, dynamicFormFields,
                 step1State, regRedirect>>
  /\ UNCHANGED <<payVars, synVars, auxVars>>

\* ------------------------------------------------------------------------
\* Step 4: the rest of handleSubmit once the response has arrived
\* ------------------------------------------------------------------------
\* Signup.tsx 1232-1296: the error thrown for a response, NoMsg when none
SignupResponseError(resp) ==
  LET m == resp.message
  IN IF resp.net = "fail" THEN RegFetchError
     ELSE IF resp.body \in {"html", "nonjson"} THEN RegJsonError
     ELSE IF ~resp.ok
     THEN (IF m = NoMsg THEN RegistrationFailedMsg
           ELSE IF LowerIncludes(m, "file")
           THEN (IF LowerIncludes(m, "size")
                 THEN Prefixed("File too large: ", {"File"}, {"file"}, m)
                 ELSE IF LowerIncludes(m, "type") \/ LowerIncludes(m, "extension")
                 THEN Prefixed("Invalid file type: ", {"type"},
                               {"file", "type"}, m)
                 ELSE IF LowerIncludes(m, "required")
                 THEN Prefixed("File upload required: ",
                               {"File", "upload", "required"},
                               {"file", "upload", "required"}, m)
                 ELSE m)
           ELSE IF LowerIncludes(m, "already registered") THEN AlreadyMsg
           ELSE m)
     ELSE IF resp.body = "success" THEN NoMsg
     ELSE IF resp.body = "noid" THEN NoIdMsg
     ELSE IF m # NoMsg THEN m
     ELSE Msg(<<"Registration failed">>, {}, {})

\* part_004 234-302: the error thrown for a response, NoMsg when none
Part004ResponseError(resp) ==
  LET m == resp.message
  IN IF resp.net = "fail" THEN RegFetchError
     ELSE IF resp.body \in {"html", "nonjson"}
     THEN Msg(<<"Failed to process server response">>, {}, {})
     ELSE IF ~resp.ok
     THEN (IF m = NoMsg THEN RegistrationFailedMsg ELSE m)
     ELSE IF resp.body = "success" THEN NoMsg
     ELSE IF resp.body = "noid" THEN NoIdMsg
     ELSE IF m # NoMsg THEN m
     ELSE Msg(<<"Registration failed">>, {}, {})

\* part_004 263-271: onBack() is called before the throw
Part004BackBeforeThrow(resp) ==
  /\ resp.net = "ok" /\ resp.body = "failure" /\ ~resp.ok
  /\ LET msg == Part004ResponseError(resp)
     IN \/ LowerIncludes(msg, "file") \/ LowerIncludes(msg, "upload")
        \/ LowerIncludes(msg, "required")

\* the catch block of part_004 (303-322)
Part004Catch(msg) ==
  IF \/ Includes(msg, "File") \/ Includes(msg, "upload")
     \/ Includes(msg, "required") \/ Includes(msg, "size")
  THEN [toast |-> msg, back |-> TRUE]
  ELSE [toast |-> msg, back |-> FALSE]

\* the response to the request in slot n arrives and its handler runs on:
\* try, catch, finally
RegisterResponse(n, resp) ==
  /\ regInFlight[n] # NoRequest
  /\ LET req == regInFlight[n]
         signup == req.handler = "Signup"
         thrown == IF signup THEN SignupResponseError(resp)
                   ELSE Part004ResponseError(resp)
         c == IF signup THEN SignupCatch(thrown) ELSE Part004Catch(thrown)
         back == c.back \/ (~signup /\ Part004BackBeforeThrow(resp))
         done == Awaited([regInFlight EXCEPT ![n] = NoRequest])
     IN IF thrown = NoMsg
        THEN /\ basicDetails' =
                  updateBasicDetails(basicDetails,
                    [req.closure EXCEPT !.registrationId = NewRegistrationId])
             /\ regRedirect' = NewRegistrationId
             /\ regToast' = NoMsg
             /\ regLoading' = IF req.live THEN FALSE ELSE regLoading
             /\ regInFlight' = done
             /\ UNCHANGED <<currentStep, step1State, regError>>
        ELSE /\ regToast' = c.toast
             /\ UNCHANGED <<basicDetails, regRedirect>>
             /\ IF back
                THEN /\ OnBack(basicDetails)
                     /\ regLoading' = FALSE
                     /\ regError' = NoMsg
                     /\ regInFlight' =
                          [m \in Slots |-> [done[m] EXCEPT !.live = FALSE]]
                ELSE /\ regLoading' = IF req.live THEN FALSE ELSE regLoading
                     /\ regError' = IF req.live /\ ~signup THEN thrown
                                    ELSE regError
                     /\ regInFlight' = done
                     /\ UNCHANGED <<currentStep, step1State>>
  /\ UNCHANGED <<eventState, dynamicFormFields>>
  /\ UNCHANGED <<payVars, synVars, auxVars>>

\* the Edit button of the summary (part_004 346): onBack()
EditDetails ==
  /\ OnWizard
  /\ currentStep = 4
  /\ LiveRequests # {} => Cardinality(Orphans) < MaxOutstanding
  /\ OnBack(basicDetails)
  /\ UnmountStep4
  /\ regToast' = NoMsg
  /\ UNCHANGED <<eventState, basicDetails, dynamicFormFields, regRedirect>>
  /\ UNCHANGED <<payVars, synVars, auxVars>>

RegNext ==
  \/ \E ok \in BOOLEAN : FetchDynamicFormResponse(ok)
  \/ FillBase
  \/ \E category \in Categories : handleCategorySelect(category)
  \/ \E field \in {AF_Diet}, option \in Range(AF_Diet.options) :
       ToggleAdditionalCheckbox(field, option)
  \/ \E field \in {AF_IdProof}, size \in FileSizes :
       ChooseAdditionalFile(field, size)
  \/ \E field \in Range(dynamicFormFields), text \in TextInputs :
       TypeDynamicText(field, text)
  \/ \E field \in Range(dynamicFormFields) :
       \E option \in Range(field.options) :
         ToggleDynamicCheckbox(field, option)
  \/ \E field \in Range(dynamicFormFields), size \in FileSizes :
       handleFileChange(field, size)
  \/ \E field \in Range(dynamicFormFields) : removeFile(field)
  \/ Step1Submit
  \/ \E category \in Categories : EditExistingRegistration(category)
  \/ StepForward
  \/ Signup_handleSubmit
  \/ Part004_handleSubmit
  \/ \E n \in Slots, resp \in RegResponses : RegisterResponse(n, resp)
  \/ EditDetails

RegSpec == RegInit /\ [][RegNext]_vars

(***************************************************************************)
(* Part II.  Properties of the registration wizard                         *)
(***************************************************************************)
\* a string that is a file's URL
HasUrl(x) == IsString(x) /\ x.v # ""

\* labels of the required file-kind fields of a basicDetails that have
\* neither a newly attached file nor a pre-existing file URL: the upload
\* fields of the chosen category, and the dynamic file fields flagged required
MissingRequiredFiles(bd) ==
  {f.label : f \in {g \in Range(WalkedAdditional(bd)) :
                      /\ g.type = "upload"
                      /\ ~IsFile(bd.fileUploads[g.id])
                      /\ ~HasUrl(bd.additionalAnswers[g.id])}}
  \cup
  {a.label : a \in {b \in Range(bd.dynamicFormAnswers) :
                      /\ IsFileField(b) /\ b.required
                      /\ ~IsFile(bd.dynamicFormFileUploads[b.id])
                      /\ ~HasUrl(b.value) /\ ~HasUrl(b.fileUrl)}}

\* C1: no registration request is sent to the backend while a required
\* file-kind field, category-additional or dynamic, has neither a newly
\* attached file nor a pre-existing file URL.
C1_RequiredFileGate ==
  \A n \in Slots :
    regInFlight[n] # NoRequest =>
      MissingRequiredFiles(regInFlight[n].closure) = {}

\* a run of the step-4 submit handler up to its fetch
SubmitStep == Signup_handleSubmit \/ Part004_handleSubmit

\* C10: when the registration is submitted with a required file missing, the
\* user is returned to the form step and the error raised names every
\* offending field by its label.
C10_MissingFileReturnsToForm ==
  [][(/\ SubmitStep
      /\ ~Incomplete(basicDetails)
      /\ MissingRequiredFiles(basicDetails) # {})
     => (/\ currentStep' = 1
         /\ \A label \in MissingRequiredFiles(basicDetails) :
              label \in Range(regToast'.text))]_vars

(***************************************************************************)
(* Part III.  One field followed from its descriptor to the request:       *)
(* createDynamicSchema, the resolver and onSubmit of both Step1BasicDetails *)
(* files, and the payload both Step4ConfirmPay files build from the stored *)
(* answer.                                                                 *)
(***************************************************************************)
\* AdditionalField descriptors of a category with needAdditionalInfo, as the
\* backend serves them: the type "signature" is one no component knows, and
\* minSelected is not a member of the AdditionalField interface
AdditionalDescriptors ==
  {[id |-> "1", type |-> t, inputTypes |-> "", required |-> FALSE,
    label |-> IF t = "checkbox" THEN "Dietary Options" ELSE "ID Proof",
    options |-> IF t = "checkbox" THEN <<"a", "b", "c">> ELSE <<>>,
    minSelected |-> IF t = "checkbox" THEN 1 ELSE 0,
    maxSelected |-> 0] : t \in {"textbox", "checkbox", "upload", "signature"}}

\* DynamicFormField descriptors as the backend serves them
DynamicDescriptors ==
  {[id |-> "d1", type |-> "input", inputTypes |-> it, required |-> r,
    label |-> IF it = "file" THEN "ID Proof" ELSE "Badge Name",
    options |-> <<>>, minSelected |-> 0, maxSelected |-> 0] :
     it \in {"text", "file"}, r \in BOOLEAN}
  \cup
  {[id |-> "d1", type |-> t, inputTypes |-> "", required |-> r,
    label |-> "ID Proof", options |-> <<>>, minSelected |-> 0,
    maxSelected |-> 0] : t \in {"file", "signature"}, r \in BOOLEAN}
  \cup
  {[id |-> "d1", type |-> "checkbox", inputTypes |-> "", required |-> r,
    label |-> "Topics", options |-> <<"a", "b", "c">>, minSelected |-> mn,
    maxSelected |-> mx] : r \in BOOLEAN, mn \in {0, 2}, mx \in {0, 2}}

\* file-kind fields of either bucket
FileKind(bucket, field) ==
  IF bucket = "additional" THEN field.type = "upload" ELSE IsFileField(field)

\* form values a field's key can hold when the form is submitted
SynValues(bucket, field) ==
  IF field.type = "checkbox"
  THEN {Undef, Str("a"), Arr(<<>>), Arr(<<"a">>), Arr(<<"a", "b">>),
        Arr(<<"a", "b", "c">>)}
  ELSE IF FileKind(bucket, field)
  THEN {Undef, NullV, Str(""), Str(ExistingUrl), FileOf("small")}
  ELSE {Undef, Str(""), Str("a")}

\* a rule of the schema: its kind and, for arrays, the length bounds (max 0
\* when there is none)
Rule(kind) == [kind |-> kind, min |-> 0, max |-> 0]

\* Step1BasicDetails.tsx 92-118: rule of a category additional field
Step1BasicDetails_AdditionalRule(field) ==
  IF field.type \in {"textbox", "date", "radio"} THEN Rule("stringMin1")
  ELSE IF field.type = "checkbox"
  THEN [kind |-> "arrayMinMax", min |-> 1, max |-> 0]
  ELSE IF field.type = "upload" THEN Rule("any")
  ELSE Rule("stringOptional")

\* Step1BasicDetails.tsx 121-173: rule of a dynamic field
Step1BasicDetails_DynamicRule(field) ==
  IF field.required
  THEN (IF field.type = "input"
        THEN (IF field.inputTypes = "file" THEN Rule("fileRequired")
              ELSE Rule("stringMin1"))
        ELSE IF field.type = "checkbox"
        THEN [kind |-> "arrayMinMax",
              min |-> IF field.minSelected # 0 THEN field.minSelected ELSE 1,
              max |-> field.maxSelected]
        ELSE Rule("stringMin1"))
  ELSE Rule("any")

\* the rule createDynamicSchema of the mounted Step1BasicDetails gives the
\* field's key
SchemaRule(step1, bucket, field) ==
  IF step1 = "part_007"
  THEN (IF bucket = "additional" THEN Rule(AdditionalRule(field))
        ELSE Rule(DynamicRule(field)))
  ELSE (IF bucket = "additional" THEN Step1BasicDetails_AdditionalRule(field)
        ELSE Step1BasicDetails_DynamicRule(field))

\* whether zod accepts a value under a rule
Accepts(rule, x) ==
  CASE rule.kind = "arrayMinMax" ->
         /\ IsArray(x) /\ Len(x.v) >= rule.min
         /\ (rule.max = 0 \/ Len(x.v) <= rule.max)
    [] rule.kind = "fileRequired" -> IsFile(x)
    [] OTHER -> RuleOK(rule.kind, x)

\* a category additional answer in the shape of a stored answer
AdditionalAnswer(field, value) ==
  [id |-> field.id, label |-> field.label, type |-> field.type,
   required |-> FALSE, value |-> value, fileUrl |-> Undef,
   inputTypes |-> "", options |-> <<>>]

\* Step1BasicDetails_NormalizeAdditional with the file left in the answer
Step1BasicDetails_NormalizeAdditional_KeepFile(field, value) == value

\* Step1BasicDetails.tsx 312-327: additionalAnswers[fieldId]
Step1BasicDetails_NormalizeAdditional(field, value) ==
  IF IsFile(value) THEN NullV ELSE value

\* Step1BasicDetails.tsx 332-375: the answer pushed for a dynamic field
Step1BasicDetails_DynamicAnswer(field, value, file) ==
  [id |-> field.id, label |-> field.label, type |-> field.type,
   required |-> field.required,
   value |-> IF field.type = "input" /\ field.inputTypes = "file"
             THEN (IF IsFile(file) THEN NullV ELSE OrEmpty(value))
             ELSE IF field.type = "checkbox"
             THEN (IF IsArray(value) THEN value
                   ELSE IF Truthy(value) THEN value ELSE Arr(<<>>))
             ELSE OrEmpty(value),
   fileUrl |-> NullV,
   inputTypes |-> IF field.type = "input" THEN field.inputTypes ELSE "",
   options |-> IF field.type \in {"select", "radio", "checkbox"}
               THEN field.options ELSE <<>>]

\* the answer onSubmit stores for the field
StoredAnswer(step1, bucket, field, value, file) ==
  IF step1 = "part_007"
  THEN (IF bucket = "additional"
        THEN AdditionalAnswer(field, NormalizeAdditional(field, value))
        ELSE DynamicAnswer(field, value, file))
  ELSE (IF bucket = "additional"
        THEN AdditionalAnswer(field,
                              Step1BasicDetails_NormalizeAdditional(field, value))
        ELSE Step1BasicDetails_DynamicAnswer(field, value, file))

\* the field's entry in fileUploads / dynamicFormFileUploads as onSubmit
\* stores it (part_007 291-293, 344-346; Step1BasicDetails.tsx 319-321,
\* 346-348)
StoredUpload(step1, bucket, field, value, file) ==
  IF bucket = "additional"
  THEN (IF IsFile(value) /\ (step1 = "Step1BasicDetails" \/ field.type = "upload")
        THEN value ELSE Undef)
  ELSE IF step1 = "part_007"
  THEN (IF IsFileField(field) /\ IsFile(file) THEN file ELSE Undef)
  ELSE (IF field.type = "input" /\ field.inputTypes = "file" /\ IsFile(file)
        THEN file ELSE Undef)

\* handleSubmit throws before its fetch (Signup.tsx 1188-1212)
PayloadThrows(step4, bucket, field, answer, upload) ==
  /\ step4 = "Signup"
  /\ bucket = "additional"
  /\ field.type = "upload"
  /\ ~IsFile(upload)
  /\ ~Truthy(answer.value)

\* the answer object handleSubmit puts in the request
PayloadObj(step4, bucket, field, answer, upload) ==
  IF step4 = "part_004"
  THEN (IF bucket = "additional"
        THEN Part004AdditionalObj(field, answer.value, upload)
        ELSE Part004DynamicObj(answer, upload))
  ELSE (IF bucket = "additional"
        THEN SignupAdditionalObj(field, answer.value, upload)
        ELSE SignupDynamicObj(answer, upload))

\* the binary part handleSubmit appends for the field (part_004 110-114,
\* 187-191; Signup.tsx 1110-1114, 1166-1180)
PayloadPart(step4, bucket, answer, upload) ==
  IF ~IsFile(upload) THEN Undef
  ELSE IF bucket = "additional"
  THEN (IF answer.type = "upload" THEN upload ELSE Undef)
  ELSE IF step4 = "part_004"
  THEN (IF IsFileField(answer) THEN upload ELSE Undef)
  ELSE (IF answer.type = "input" /\ answer.inputTypes = "file"
        THEN upload ELSE Undef)

\* ------------------------------------------------------------------------
\* The steps
\* ------------------------------------------------------------------------
\* the form as it stands when the user presses Save: any build, any
\* descriptor, any value the field's key can hold; the dynamic-form fetch of
\* part_007 has rewritten input/file descriptors (247-256)
FormInit ==
  /\ PayIdle
  /\ currentEvent = Null /\ serverForm = <<>> /\ step4Variant = "Signup"
  /\ RegInitStore
  /\ synStep1 \in {"part_007", "Step1BasicDetails"}
  /\ synStep4 \in {"part_004", "Signup"}
  /\ synBucket \in {"additional", "dynamic"}
  /\ \E raw \in AdditionalDescriptors \cup DynamicDescriptors :
       /\ raw \in (IF synBucket = "additional" THEN AdditionalDescriptors
                   ELSE DynamicDescriptors)
       /\ synField = IF synBucket = "dynamic" /\ synStep1 = "part_007"
                     THEN TransformField(raw) ELSE raw
  /\ synValue \in SynValues(synBucket, synField)
  /\ synFile \in {Undef, FileOf("small")}
  \* a file is held in dynamicFormFileUploads for dynamic file fields only;
  \* the form value is a File only where the component puts one there
  /\ IsFile(synFile) => (synBucket = "dynamic" /\ FileKind(synBucket, synField)
                         /\ synValue \in {Undef, NullV, FileOf("small")})
  /\ (IsFile(synValue) /\ synBucket = "dynamic") =>
       (synStep1 = "Step1BasicDetails" /\ IsFile(synFile))
  /\ synPc = "form"
  /\ synRule = NoRule
  /\ synAnswer = NoAnswer /\ synUpload = Undef
  /\ synObj = NoObj /\ synPart = Undef
  /\ AuxIdle

\* createDynamicSchema runs for the field set (part_007 38-109,
\* Step1BasicDetails.tsx 59-177)
SynCreateSchema ==
  /\ synPc = "form"
  /\ synRule' = SchemaRule(synStep1, synBucket, synField)
  /\ synPc' = "schema"
  /\ UNCHANGED <<synStep1, synStep4, synBucket, synField, synValue, synFile,
                 synAnswer, synUpload, synObj, synPart>>
  /\ UNCHANGED <<payVars, regVars, auxVars>>

\* handleSubmit(onSubmit): the resolver validates the form, and onSubmit
\* normalizes and stores the answer when it passes
SynOnSubmit ==
  /\ synPc = "schema"
  /\ IF Accepts(synRule, synValue)
     THEN /\ synAnswer' = StoredAnswer(synStep1, synBucket, synField, synValue,
                                       synFile)
          /\ synUpload' = StoredUpload(synStep1, synBucket, synField, synValue,
                                       synFile)
          /\ synPc' = "saved"
     ELSE /\ synPc' = "rejected"
          /\ UNCHANGED <<synAnswer, synUpload>>
  /\ UNCHANGED <<synStep1, synStep4, synBucket, synField, synValue, synFile,
                 synRule, synObj, synPart>>
  /\ UNCHANGED <<payVars, regVars, auxVars>>

\* handleSubmit of step 4 builds the request from the stored answer
SynHandleSubmit ==
  /\ synPc = "saved"
  /\ IF PayloadThrows(synStep4, synBucket, synField, synAnswer, synUpload)
     THEN /\ synPc' = "blocked"
          /\ UNCHANGED <<synObj, synPart>>
     ELSE /\ synObj' = PayloadObj(synStep4, synBucket, synField, synAnswer,
                                  synUpload)
          /\ synPart' = PayloadPart(synStep4, synBucket, synAnswer, synUpload)
          /\ synPc' = "sent"
  /\ UNCHANGED <<synStep1, synStep4, synBucket, synField, synValue, synFile,
                 synRule, synAnswer, synUpload>>
  /\ UNCHANGED <<payVars, regVars, auxVars>>

FormNext == SynCreateSchema \/ SynOnSubmit \/ SynHandleSubmit

FormSpec == FormInit /\ [][FormNext]_vars

(***************************************************************************)
(* Part IIIb.  The answer store driven directly through its operations     *)
(* (useRegistrationStore.ts 185-314), with no component in between.        *)
(***************************************************************************)
\* the store's state is the one create() sets up (185-194)
StoreIsInitial ==
  /\ currentStep = 1
  /\ basicDetails = InitialBasicDetails
  /\ dynamicFormFields = <<>>
  /\ accompanyingPersons = <<>>
  /\ selectedWorkshops = <<>>
  /\ badgeInfo = Null
  /\ skippedAccompanying = FALSE
  /\ skippedWorkshops = FALSE

StoreInit ==
  /\ PayIdle
  /\ currentEvent = Null /\ serverForm = <<>> /\ step4Variant = "Signup"
  /\ RegInitStore
  /\ SynIdle
  /\ AuxIdle

\* setDynamicFormFields (203)
setDynamicFormFields(fields) ==
  /\ dynamicFormFields' = fields
  /\ UNCHANGED <<currentEvent, serverForm, step4Variant, currentStep,
                 basicDetails, formBase, formCategory, formValues,
                 selectedCategory, dynamicSchema, formFetched, regLoading,
                 regError, regToast, regInFlight, regRedirect>>
  /\ UNCHANGED <<payVars, synVars, evVars, absVars, tblVars>>
  /\ UNCHANGED restStore
  /\ resetFrom' = "none"

\* mutant of updateDynamicFormAnswer: the answer is appended without looking
\* for an existing one
updateDynamicFormAnswer_AlwaysAppend(id, value, fileUrl) ==
  LET existingAnswers == basicDetails.dynamicFormAnswers
      existingIndex == FindIndex(existingAnswers, id)
      hasField == \E f \in Range(dynamicFormFields) : f.id = id
      field == CHOOSE f \in Range(dynamicFormFields) : f.id = id
      newAnswer ==
        [id |-> id, label |-> field.label, type |-> field.type,
         required |-> field.required, value |-> value,
         fileUrl |-> IF Truthy(fileUrl) THEN fileUrl ELSE NullV,
         inputTypes |-> IF field.type = "input" THEN field.inputTypes ELSE "",
         options |-> field.options]
      updatedAnswers ==
        Append(existingAnswers, newAnswer)
  IN /\ basicDetails' =
          IF ~hasField THEN basicDetails
          ELSE [basicDetails EXCEPT !.dynamicFormAnswers = updatedAnswers]
     /\ UNCHANGED <<currentEvent, serverForm, step4Variant, currentStep,
                    dynamicFormFields, formBase, formCategory, formValues,
                    selectedCategory, dynamicSchema, formFetched, regLoading,
                    regError, regToast, regInFlight, regRedirect>>
     /\ UNCHANGED <<payVars, synVars, evVars, absVars, tblVars>>
     /\ UNCHANGED restStore
     /\ resetFrom' = "none"

\* updateDynamicFormAnswer (206-257): an existing answer gets the value, and
\* the fileUrl when one is passed; a new answer is built from the field's
\* descriptor, and nothing happens when there is no such field
updateDynamicFormAnswer(id, value, fileUrl) ==
  LET existingAnswers == basicDetails.dynamicFormAnswers
      existingIndex == FindIndex(existingAnswers, id)
      hasField == \E f \in Range(dynamicFormFields) : f.id = id
      field == CHOOSE f \in Range(dynamicFormFields) : f.id = id
      newAnswer ==
        [id |-> id, label |-> field.label, type |-> field.type,
         required |-> field.required, value |-> value,
         fileUrl |-> IF Truthy(fileUrl) THEN fileUrl ELSE NullV,
         inputTypes |-> IF field.type = "input" THEN field.inputTypes ELSE "",
         options |-> field.options]
      updatedAnswers ==
        IF existingIndex > 0
        THEN [existingAnswers EXCEPT
                ![existingIndex] =
                   [@ EXCEPT !.value = value,
                             !.fileUrl = IF fileUrl # Undef THEN fileUrl ELSE @]]
        ELSE Append(existingAnswers, newAnswer)
  IN /\ basicDetails' =
          IF existingIndex = 0 /\ ~hasField THEN basicDetails
          ELSE [basicDetails EXCEPT !.dynamicFormAnswers = updatedAnswers]
     /\ UNCHANGED <<currentEvent, serverForm, step4Variant, currentStep,
                    dynamicFormFields, formBase, formCategory, formValues,
                    selectedCategory, dynamicSchema, formFetched, regLoading,
                    regError, regToast, regInFlight, regRedirect>>
     /\ UNCHANGED <<payVars, synVars, evVars, absVars, tblVars>>
     /\ UNCHANGED restStore
     /\ resetFrom' = "none"

\* setDynamicFormFileUpload (260-289) called with a File or with null
StoreSetFileUpload(id, file) ==
  /\ basicDetails' = setDynamicFormFileUpload(basicDetails, id, file)
  /\ UNCHANGED <<currentEvent, serverForm, step4Variant, currentStep,
                 dynamicFormFields, formBase, formCategory, formValues,
                 selectedCategory, dynamicSchema, formFetched, regLoading,
                 regError, regToast, regInFlight, regRedirect>>
  /\ UNCHANGED <<payVars, synVars, evVars, absVars, tblVars>>
  /\ UNCHANGED restStore
  /\ resetFrom' = "none"

\* mutant of resetForm: the field descriptors are left in place
resetForm_KeepFields ==
  /\ currentStep' = 1
  /\ basicDetails' = InitialBasicDetails
  /\ UNCHANGED dynamicFormFields
  /\ accompanyingPersons' = <<>>
  /\ selectedWorkshops' = <<>>
  /\ badgeInfo' = Null
  /\ skippedAccompanying' = FALSE
  /\ skippedWorkshops' = FALSE
  /\ resetFrom' = IF StoreIsInitial THEN "initial" ELSE "changed"
  /\ UNCHANGED <<currentEvent, serverForm, step4Variant, formBase,
                 formCategory, formValues, selectedCategory, dynamicSchema,
                 formFetched, regLoading, regError, regToast, regInFlight,
                 regRedirect>>
  /\ UNCHANGED <<payVars, synVars, evVars, absVars, tblVars>>

\* resetForm (304-314)
resetForm ==
  /\ currentStep' = 1
  /\ basicDetails' = InitialBasicDetails
  /\ dynamicFormFields' = <<>>
  /\ accompanyingPersons' = <<>>
  /\ selectedWorkshops' = <<>>
  /\ badgeInfo' = Null
  /\ skippedAccompanying' = FALSE
  /\ skippedWorkshops' = FALSE
  /\ resetFrom' = IF StoreIsInitial THEN "initial" ELSE "changed"
  /\ UNCHANGED <<currentEvent, serverForm, step4Variant, formBase,
                 formCategory, formValues, selectedCategory, dynamicSchema,
                 formFetched, regLoading, regError, regToast, regInFlight,
                 regRedirect>>
  /\ UNCHANGED <<payVars, synVars, evVars, absVars, tblVars>>

StoreNext ==
  \/ \E fields \in ServerForms : setDynamicFormFields(fields)
  \/ \E id \in DynIds, value \in {Str(""), Str(ExistingUrl)},
        fileUrl \in {Undef, Str(ExistingUrl)} :
       updateDynamicFormAnswer(id, value, fileUrl)
  \/ \E id \in DynIds, file \in {NullV, FileOf("small")} :
       StoreSetFileUpload(id, file)
  \/ resetForm

StoreSpec == StoreInit /\ [][StoreNext]_vars

(***************************************************************************)
(* Part IIIc.  The wizard and the payment page side by side: a behaviour   *)
(* is either a session of the registration wizard or a visit of the        *)
(* payment page.                                                           *)
(***************************************************************************)
\* ------------------------------------------------------------------------
\* The whole store: the operations above and the ones of the later wizard
\* steps (useRegistrationStore.ts 195-314)
\* ------------------------------------------------------------------------
\* setStep (195)
setStep(step) ==
  /\ currentStep' = step
  /\ resetFrom' = "none"
  /\ UNCHANGED restStore
  /\ UNCHANGED <<currentEvent, serverForm, step4Variant, basicDetails,
                 dynamicFormFields, formBase, formCategory, formValues,
                 selectedCategory, dynamicSchema, formFetched, regLoading,
                 regError, regToast, regInFlight, regRedirect>>
  /\ UNCHANGED <<payVars, synVars, evVars, absVars, tblVars>>

\* updateBasicDetails (197-200) called with the details of a render and one
\* member changed
StoreUpdateBasicDetails(data) ==
  /\ basicDetails' = updateBasicDetails(basicDetails, data)
  /\ resetFrom' = "none"
  /\ UNCHANGED restStore
  /\ UNCHANGED <<currentEvent, serverForm, step4Variant, currentStep,
                 dynamicFormFields, formBase, formCategory, formValues,
                 selectedCategory, dynamicSchema, formFetched, regLoading,
                 regError, regToast, regInFlight, regRedirect>>
  /\ UNCHANGED <<payVars, synVars, evVars, absVars, tblVars>>

\* the members of the store the operations of steps 2 and 3 and of the
\* success page leave alone
StepFrame ==
  /\ resetFrom' = "none"
  /\ UNCHANGED <<regVars, payVars, synVars, evVars, absVars, tblVars>>

\* setAccompanyingPersons (291-292)
setAccompanyingPersons(data) ==
  /\ accompanyingPersons' = data
  /\ skippedAccompanying' = FALSE
  /\ UNCHANGED <<selectedWorkshops, badgeInfo, skippedWorkshops>>
  /\ StepFrame

\* skipAccompanyingPersons (294-295)
skipAccompanyingPersons ==
  /\ accompanyingPersons' = <<>>
  /\ skippedAccompanying' = TRUE
  /\ UNCHANGED <<selectedWorkshops, badgeInfo, skippedWorkshops>>
  /\ StepFrame

\* setSelectedWorkshops (297-298)
setSelectedWorkshops(workshops) ==
  /\ selectedWorkshops' = workshops
  /\ skippedWorkshops' = FALSE
  /\ UNCHANGED <<accompanyingPersons, badgeInfo, skippedAccompanying>>
  /\ StepFrame

\* skipWorkshops (300)
skipWorkshops ==
  /\ selectedWorkshops' = <<>>
  /\ skippedWorkshops' = TRUE
  /\ UNCHANGED <<accompanyingPersons, badgeInfo, skippedAccompanying>>
  /\ StepFrame

\* setBadgeInfo (302)
setBadgeInfo(info) ==
  /\ badgeInfo' = info
  /\ UNCHANGED <<accompanyingPersons, selectedWorkshops, skippedAccompanying,
                 skippedWorkshops>>
  /\ StepFrame

WizardStoreNext ==
  \/ \E step \in 1..4 : setStep(step)
  \/ \E data \in {[basicDetails EXCEPT !.fullName = "Dr Who"],
                  [basicDetails EXCEPT !.registrationId = NewRegistrationId]} :
       StoreUpdateBasicDetails(data)
  \/ setDynamicFormFields(<<DF_Topics>>)
  \/ updateDynamicFormAnswer("d3", Str("t1"), Undef)
  \/ StoreSetFileUpload("d2", FileOf("small"))
  \/ \E data \in {<<"p1">>, <<"p1", "p2">>} : setAccompanyingPersons(data)
  \/ skipAccompanyingPersons
  \/ setSelectedWorkshops(<<"w1">>)
  \/ skipWorkshops
  \/ setBadgeInfo("badge1")
  \/ resetForm

WizardStoreSpec == StoreInit /\ [][WizardStoreNext]_vars

\* the browser shows the payment page (no event form belongs to the visit)
PaymentVisit == serverForm = <<>>

FlowInit == PayInit \/ RegInit

FlowNext ==
  \/ PaymentVisit /\ PayNext
  \/ ~PaymentVisit /\ RegNext

FlowSpec == FlowInit /\ [][FlowNext]_vars

(***************************************************************************)
(* Part IV.  Properties of the field pipeline                              *)
(***************************************************************************)
\* the form passed the resolver and onSubmit stored the field's answer
SynStored == synPc \in {"saved", "sent", "blocked"}

\* C11: for every checkbox answer, category-additional or dynamic, the value
\* the normalizer produces is an array, never a bare scalar, also when the
\* input was a single selected string: the value onSubmit stores and the
\* value handleSubmit puts in the request.
C11_CheckboxValueIsArray ==
  synField.type = "checkbox" =>
    /\ SynStored => IsArray(synAnswer.value)
    /\ synPc = "sent" => IsArray(synObj.value)

\* C12: for every file-input field, in every state reachable by any sequence
\* of answer-store operations, the textual value and the file reference are
\* never both populated: no answer of a file field holds a non-empty text
\* while the store holds a live file for the same field.
C12_ValueXorFile ==
  \A i \in 1..Len(basicDetails.dynamicFormAnswers) :
    LET answer == basicDetails.dynamicFormAnswers[i]
    IN IsFileField(answer) =>
         ~(/\ HasUrl(answer.value)
           /\ IsFile(basicDetails.dynamicFormFileUploads[answer.id]))

\* every Save the resolver accepts was validated with the schema
\* synthesized from the category selected and the field set in effect
AcceptedSaveUsesCurrentSchema ==
  [][Step1Submit =>
       dynamicSchema = createDynamicSchema(selectedCategory,
                                           dynamicFormFields)]_vars

\* C13: the validation schema is recomputed whenever the selected category or
\* the dynamic field set changes, in any order of those changes: while the
\* form step is shown, the schema the resolver validates with is the one
\* synthesized from the category selected and the field set now in effect,
\* never one built for an older category or field set.
C13_SchemaIsCurrent ==
  (OnWizard /\ currentStep = 1) =>
    dynamicSchema = createDynamicSchema(selectedCategory, dynamicFormFields)

\* C14: once a registration submission has succeeded, the answer store is
\* back in its initial state: no answers and no pending file uploads.
C14_StoreResetAfterSubmit ==
  regRedirect # Null =>
    /\ basicDetails = InitialBasicDetails
    /\ dynamicFormFields = <<>>

RegisterFailed(n, resp) ==
  /\ regInFlight[n] # NoRequest
  /\ LET signup == regInFlight[n].handler = "Signup"
         thrown == IF signup THEN SignupResponseError(resp)
                   ELSE Part004ResponseError(resp)
         c == IF signup THEN SignupCatch(thrown) ELSE Part004Catch(thrown)
     IN thrown # NoMsg /\ regToast' = c.toast
  /\ RegisterResponse(n, resp)

RecognizedAdditional == {"textbox", "date", "radio", "checkbox", "upload"}
RecognizedDynamic ==
  {"input", "textarea", "select", "radio", "checkbox", "date", "file"}
Recognized(bucket, field) ==
  IF bucket = "additional" THEN field.type \in RecognizedAdditional
  ELSE field.type \in RecognizedDynamic

\* createDynamicSchema has run for the field
SynSynthesized == synPc # "form" /\ synPc # "idle"

\* C17: schema synthesis never fails on an unrecognized kind, and the rule it
\* produces for such a field is an optional-string rule (or one that accepts
\* at least as much), so a malformed descriptor never blocks the form.
C17_UnknownKindOptionalString ==
  (SynSynthesized /\ ~Recognized(synBucket, synField)) =>
    /\ synRule.kind \in {"stringOptional", "any"}
    /\ synPc # "rejected"

\* C18: the schema treats every file-input field as optional whatever its
\* required flag: validation never rejects the form because of a file field,
\* in particular not when the field is empty.
C18_FileFieldAlwaysOptional ==
  FileKind(synBucket, synField) => synPc # "rejected"

\* the least number of options a checkbox group asks for
MinSelected(field) == IF field.minSelected # 0 THEN field.minSelected ELSE 1

\* a checkbox group that asks for a selection: a dynamic field flagged
\* required, or a category additional field
RequiredGroup(bucket, field) ==
  /\ field.type = "checkbox"
  /\ bucket = "dynamic" => field.required

\* C19: for a required checkbox-group field, category-additional or dynamic,
\* the schema accepts a selection exactly when it is an array of at least
\* minSelected (default 1) options and, if maxSelected is set, at most
\* maxSelected: with minSelected = 1, zero options fail and one passes.
C19_CheckboxBounds ==
  (RequiredGroup(synBucket, synField) /\ synPc \notin {"idle", "form", "schema"})
    => (synPc # "rejected"
          <=> /\ IsArray(synValue)
              /\ Len(synValue.v) >= MinSelected(synField)
              /\ (synField.maxSelected = 0
                    \/ Len(synValue.v) <= synField.maxSelected))

\* the field is a file field edited with the URL of its file and no new file
EditedWithUrl ==
  /\ FileKind(synBucket, synField)
  /\ synValue = Str(ExistingUrl)
  /\ ~IsFile(synFile)

\* C20: round trip for editing: a file field that carries the URL of a file
\* uploaded before, and no live file handle, normalizes to a textual value
\* equal to that URL, and neither the files-to-upload map nor the multipart
\* payload has an entry for it.
C20_EditRoundTrip ==
  EditedWithUrl =>
    /\ SynStored => (synAnswer.value = Str(ExistingUrl) /\ synUpload = Undef)
    /\ synPc = "sent" => (synObj.value = Str(ExistingUrl) /\ synPart = Undef)

\* the URL of a dynamic file field has reached the request
C20_Witness ==
  /\ EditedWithUrl
  /\ synPc = "sent"
  /\ synBucket = "dynamic"
  /\ synObj.value = Str(ExistingUrl)

\* the field is a category additional file field
AdditionalUpload == synBucket = "additional" /\ synField.type = "upload"

\* an answer with no text in it
EmptyAnswer(x) == x \in {Undef, NullV, Str("")}

\* C21: for a category-additional file field the normalizer moves a live
\* file handle into the files-to-upload map under the field's id and leaves
\* an empty/null textual answer; a string URL is kept as the textual answer;
\* with neither, the answer is empty.  The request handleSubmit builds from
\* the stored answer carries the file as a binary part, or the URL as text.
C21_AdditionalFileNormalized ==
  (AdditionalUpload /\ SynStored) =>
    /\ IF IsFile(synValue)
       THEN synUpload = synValue /\ synAnswer.value \in {Str(""), NullV}
       ELSE IF IsString(synValue) /\ synValue.v # ""
       THEN synAnswer.value = synValue /\ synUpload = Undef
       ELSE EmptyAnswer(synAnswer.value) /\ synUpload = Undef
    /\ synPc = "sent" =>
         IF IsFile(synValue)
         THEN synPart = synValue /\ EmptyAnswer(synObj.value)
         ELSE IF IsString(synValue) /\ synValue.v # ""
         THEN synObj.value = synValue /\ synPart = Undef
         ELSE EmptyAnswer(synObj.value) /\ synPart = Undef

\* a new file of a category additional field has reached the request as a
\* binary part
C21_Witness ==
  /\ AdditionalUpload
  /\ IsFile(synValue)
  /\ synPc = "sent"
  /\ synPart = synValue
  /\ synAnswer.value \in {Str(""), NullV}

\* the kinds that carry an option list
ChoiceKinds == {"select", "radio", "checkbox"}

\* C22: every dynamic-form answer object keeps the kind, label, required flag
\* and, for choice kinds, the option list of its descriptor, both as stored by
\* the step-1 normalizer and as sent in the final submission payload.
C22_AnswerKeepsDescriptor ==
  synBucket = "dynamic" =>
    /\ SynStored =>
         /\ synAnswer.type = synField.type
         /\ synAnswer.label = synField.label
         /\ synAnswer.required = synField.required
         /\ synField.type \in ChoiceKinds => synAnswer.options = synField.options
    /\ synPc = "sent" =>
         /\ synObj.type = synField.type
         /\ synObj.label = synField.label
         /\ synObj.required = synField.required
         /\ synField.type \in ChoiceKinds =>
              ("options" \in synObj.keys /\ synObj.options = synField.options)

\* the registration requests awaiting a response
Outstanding == LiveRequests \cup Orphans

\* a step in which a submission request completed in the success branch
SubmissionSucceeded ==
  /\ Cardinality(Outstanding') < Cardinality(Outstanding)
  /\ regToast' = NoMsg
  /\ regRedirect' = NewRegistrationId

\* C23: a change made to the registration store while a submission request is
\* in flight is not lost when the request completes: the success branch adds
\* the registration id and leaves every other stored answer at the value it
\* has at that moment.
C23_CompletionKeepsStoreChanges ==
  [][SubmissionSucceeded =>
       basicDetails' = [basicDetails EXCEPT !.registrationId = NewRegistrationId]
    ]_vars

\* a payment is being processed: from the pay action until the widget is
\* dismissed or verification has finished
Processing == widget = "open" \/ hpc \in {"verifying", "delay"}

\* the pay action, however opening the widget ends
PayStep == \E throws \in BOOLEAN : HandlePay(throws)

AnswersUniqueById ==
  \A i, j \in 1..Len(basicDetails.dynamicFormAnswers) :
    basicDetails.dynamicFormAnswers[i].id = basicDetails.dynamicFormAnswers[j].id
      => i = j

\* the id has neither a stored answer nor a descriptor
UnknownId(id) ==
  /\ FindIndex(basicDetails.dynamicFormAnswers, id) = 0
  /\ \A f \in Range(dynamicFormFields) : f.id # id

\* C28: after any sequence of updateDynamicFormAnswer and
\* setDynamicFormFileUpload calls from the initial store, dynamicFormAnswers
\* holds at most one answer per field id, and an update for an id that has
\* neither an existing answer nor a descriptor in dynamicFormFields leaves the
\* store unchanged.
C28_OneAnswerPerField ==
  [][/\ AnswersUniqueById'
     /\ \A id \in DynIds :
          UnknownId(id) =>
            \A value \in {Str(""), Str(ExistingUrl)},
               fileUrl \in {Undef, Str(ExistingUrl)} :
              updateDynamicFormAnswer(id, value, fileUrl) =>
                UNCHANGED <<currentStep, basicDetails, dynamicFormFields>>
    ]_vars

\* two answers are stored, the first one updated with a URL, while the
\* descriptors in force know neither of them
C28_Witness ==
  /\ Len(basicDetails.dynamicFormAnswers) = 2
  /\ basicDetails.dynamicFormAnswers[1].id = "d1"
  /\ basicDetails.dynamicFormAnswers[1].value = Str(ExistingUrl)
  /\ basicDetails.dynamicFormAnswers[2].id = "d2"
  /\ dynamicFormFields = <<DF_Topics>>

\* C30: after any sequence of registration-store actions, resetForm returns
\* the store to exactly its initial state: step 1, the initial basic details
\* with no answers or pending uploads, no dynamic field descriptors, empty
\* accompanying-person and workshop lists, no badge info, both skipped flags
\* false.
C30_ResetRestoresInitial == resetFrom # "none" => StoreIsInitial

\* resetForm has just run on a store that was not in its initial state
C30_Witness == resetFrom = "changed" /\ StoreIsInitial

(***************************************************************************)
(* Part V.  The event store (app/store/useEventStore.ts): fetchEventById   *)
(* and fetchRegistrationSettings with their caches, and the clock.         *)
(***************************************************************************)
\* CACHE_DURATION = 10 * 60 * 1000 (106)
CACHE_DURATION == 600000

\* the clock advances in steps of half the cache duration, so that an entry
\* is seen at the ages 0, 5 and 10 minutes
TickMs == CACHE_DURATION \div 2

\* the members of the wizard the event store does not touch
wizardState == <<serverForm, step4Variant, currentStep, basicDetails,
                 dynamicFormFields, formBase, formCategory, formValues,
                 selectedCategory, dynamicSchema, formFetched, regLoading,
                 regError, regToast, regInFlight, regRedirect>>

\* mutant of CacheHit: an entry of exactly the cache duration still counts
CacheHit_Inclusive(cached) ==
  cached # NoEntry /\ now - cached.timestamp <= CACHE_DURATION

\* cached && Date.now() - cached.timestamp < CACHE_DURATION (172, 225)
CacheHit(cached) ==
  cached # NoEntry /\ now - cached.timestamp < CACHE_DURATION

\* which way a response takes fetchEventById (191-217):
\*   "success"  response.ok, data.success and data.data        (197-211)
\*   "null"     response.ok, but success false or no data      (213)
\*   "thrown"   not response.ok, fetch or json() threw         (191-193, 214)
FetchEventBranch(resp) ==
  IF resp.net = "fail" \/ ~resp.ok \/ resp.body = "nonjson" THEN "thrown"
  ELSE IF resp.body = "success" THEN "success"
  ELSE "null"

\* fetchEventById up to its await (169-189)
FetchEventByIdCall(eventId) ==
  LET cached == eventCache[eventId]
      k == <<"fetchEventById", eventId>>
  IN /\ IF CacheHit(cached)
        THEN /\ currentEvent' = cached.data
             /\ UNCHANGED <<eventLoading, eventFetches>>
        ELSE /\ eventFetches[k] < MaxFetch
             /\ eventLoading' = TRUE
             /\ eventFetches' = [eventFetches EXCEPT ![k] = @ + 1]
             /\ UNCHANGED currentEvent
     /\ UNCHANGED <<eventCache, settingsCache, registrationSettings, now>>
     /\ UNCHANGED <<wizardState, payVars, synVars, restVars, absVars, tblVars>>

\* the response arrives and fetchEventById runs on (191-217)
FetchEventByIdResponse(eventId, resp) ==
  LET k == <<"fetchEventById", eventId>>
      branch == FetchEventBranch(resp)
  IN /\ eventFetches[k] > 0
     /\ eventFetches' = [eventFetches EXCEPT ![k] = @ - 1]
     /\ IF branch = "success"
        THEN /\ currentEvent' = eventId
             /\ eventCache' = [eventCache EXCEPT
                                 ![eventId] = [data |-> eventId,
                                               timestamp |-> now]]
             /\ eventLoading' = FALSE
        ELSE IF branch = "null"
        THEN UNCHANGED <<currentEvent, eventCache, eventLoading>>
        ELSE /\ eventLoading' = FALSE
             /\ UNCHANGED <<currentEvent, eventCache>>
     /\ UNCHANGED <<settingsCache, registrationSettings, now>>
     /\ UNCHANGED <<wizardState, payVars, synVars, restVars, absVars, tblVars>>

\* which way a response takes fetchRegistrationSettings (241-266)
FetchSettingsBranch(resp) ==
  IF resp.net = "fail" \/ resp.body = "nonjson" \/ ~resp.ok THEN "null"
  ELSE IF resp.body = "success" THEN "success"
  ELSE "null"

\* fetchRegistrationSettings up to its await (222-239)
FetchRegistrationSettingsCall(eventId) ==
  LET cached == settingsCache[eventId]
      k == <<"fetchRegistrationSettings", eventId>>
  IN /\ IF CacheHit(cached)
        THEN /\ registrationSettings' = cached.data
             /\ UNCHANGED eventFetches
        ELSE /\ eventFetches[k] < MaxFetch
             /\ eventFetches' = [eventFetches EXCEPT ![k] = @ + 1]
             /\ UNCHANGED registrationSettings
     /\ UNCHANGED <<currentEvent, eventLoading, eventCache, settingsCache, now>>
     /\ UNCHANGED <<wizardState, payVars, synVars, restVars, absVars, tblVars>>

\* the response arrives and fetchRegistrationSettings runs on (241-266)
FetchRegistrationSettingsResponse(eventId, resp) ==
  LET k == <<"fetchRegistrationSettings", eventId>>
  IN /\ eventFetches[k] > 0
     /\ eventFetches' = [eventFetches EXCEPT ![k] = @ - 1]
     /\ IF FetchSettingsBranch(resp) = "success"
        THEN /\ registrationSettings' = eventId
             /\ settingsCache' = [settingsCache EXCEPT
                                    ![eventId] = [data |-> eventId,
                                                  timestamp |-> now]]
        ELSE UNCHANGED <<registrationSettings, settingsCache>>
     /\ UNCHANGED <<currentEvent, eventLoading, eventCache, now>>
     /\ UNCHANGED <<wizardState, payVars, synVars, restVars, absVars, tblVars>>

\* clearCache (273-277)
clearCache ==
  /\ eventCache' = [id \in EventIds |-> NoEntry]
  /\ settingsCache' = [id \in EventIds |-> NoEntry]
  /\ UNCHANGED <<currentEvent, eventLoading, registrationSettings, now,
                 eventFetches>>
  /\ UNCHANGED <<wizardState, payVars, synVars, restVars, absVars, tblVars>>

\* time passes
Tick ==
  /\ now < MaxTicks * TickMs
  /\ now' = now + TickMs
  /\ UNCHANGED <<currentEvent, eventLoading, eventCache, settingsCache,
                 registrationSettings, eventFetches>>
  /\ UNCHANGED <<wizardState, payVars, synVars, restVars, absVars, tblVars>>

\* a response to some fetchEventById request arrives
EventResponseArrives ==
  \E eventId \in EventIds, resp \in HttpResponses :
    FetchEventByIdResponse(eventId, resp)

\* a response to some fetchRegistrationSettings request arrives
SettingsResponseArrives ==
  \E eventId \in EventIds, resp \in HttpResponses :
    FetchRegistrationSettingsResponse(eventId, resp)

EventNext ==
  \/ \E eventId \in EventIds : FetchEventByIdCall(eventId)
  \/ EventResponseArrives
  \/ \E eventId \in EventIds : FetchRegistrationSettingsCall(eventId)
  \/ SettingsResponseArrives
  \/ clearCache
  \/ Tick

EventInit == StoreInit

EventSpec == EventInit /\ [][EventNext]_vars

\* every request is answered in the end
EventLiveSpec ==
  /\ EventSpec
  /\ \A eventId \in EventIds :
       /\ WF_vars(\E resp \in HttpResponses :
                    FetchEventByIdResponse(eventId, resp))
       /\ WF_vars(\E resp \in HttpResponses :
                    FetchRegistrationSettingsResponse(eventId, resp))

(***************************************************************************)
(* Properties of the event store                                           *)
(***************************************************************************)
\* C26: every fetchEventById call that sets the event store's loading flag to
\* true eventually sets it back to false, whatever the outcome: HTTP failure,
\* a body with success=false or no data, a thrown exception, success.
C26_LoadingEventuallyCleared == eventLoading ~> ~eventLoading

\* the cached entry for the id is younger than the cache duration
Younger(cache, eventId) ==
  /\ cache[eventId] # NoEntry
  /\ now - cache[eventId].timestamp < CACHE_DURATION

\* a request of the operation for the id was sent in this step
Sent(op, eventId) ==
  eventFetches'[<<op, eventId>>] = eventFetches[<<op, eventId>>] + 1

\* C27: fetchEventById and fetchRegistrationSettings answer from the cache
\* without a network request only when the cached entry for that event id is
\* younger than 10 minutes; otherwise they refetch, and on success replace the
\* entry with a fresh timestamp.
C27_CacheWindow ==
  [][\A eventId \in EventIds :
       /\ FetchEventByIdCall(eventId) =>
            IF Younger(eventCache, eventId)
            THEN /\ ~Sent("fetchEventById", eventId)
                 /\ currentEvent' = eventCache[eventId].data
            ELSE Sent("fetchEventById", eventId)
       /\ FetchRegistrationSettingsCall(eventId) =>
            IF Younger(settingsCache, eventId)
            THEN /\ ~Sent("fetchRegistrationSettings", eventId)
                 /\ registrationSettings' = settingsCache[eventId].data
            ELSE Sent("fetchRegistrationSettings", eventId)
       /\ \A resp \in HttpResponses :
            /\ (FetchEventByIdResponse(eventId, resp)
                  /\ FetchEventBranch(resp) = "success") =>
                 eventCache'[eventId] = [data |-> eventId, timestamp |-> now]
            /\ (FetchRegistrationSettingsResponse(eventId, resp)
                  /\ FetchSettingsBranch(resp) = "success") =>
                 settingsCache'[eventId] = [data |-> eventId, timestamp |-> now]
    ]_vars

\* an entry that has reached the cache duration is being refetched
C27_Witness ==
  \E eventId \in EventIds :
    /\ eventCache[eventId] # NoEntry
    /\ now - eventCache[eventId].timestamp = CACHE_DURATION
    /\ eventFetches[<<"fetchEventById", eventId>>] = 1

(***************************************************************************)
(* Part VI.  Submitting an abstract: onSubmit of the submission sidebar    *)
(* (src/unnamed/part_010 305-424) and the abstract store                   *)
(* (app/store/useAbstractStore.ts).                                        *)
(***************************************************************************)
\* the toasts of onSubmit
AbstractSubmitted == "Abstract submitted successfully"
AbstractUpdated == "Abstract updated successfully"
AbstractFailed == "Failed to submit abstract"

\* what onSubmit or addAbstract throws on a response (part_010 397-401,
\* useAbstractStore.ts 116-120): the exception of fetch or json(), or the
\* Error built from result.message; Null when result.success is true
AbstractErrorOf(resp) ==
  IF resp.net = "fail" THEN FetchError
  ELSE IF resp.body = "nonjson" THEN JsonParseError
  ELSE IF resp.body = "failure"
  THEN (IF resp.message # "" THEN resp.message ELSE AbstractFailed)
  ELSE Null

\* the members the submission flow does not touch
absFrame == <<regVars, payVars, synVars, restVars, evVars, tblVars>>

\* the abstracts of the list that carry an id; an abstract is its backend
\* record number, and 0 stands for no abstract (null, undefined)
AbstractIds == Range(abstracts) \ {0}

\* openSidebar (251-254): id is 0 for a new abstract
openSidebar(id) ==
  /\ ~isSidebarOpen
  /\ selectedAbstract' = IF id \in AbstractIds THEN id ELSE 0
  /\ isSidebarOpen' = TRUE
  /\ UNCHANGED <<abstracts, absLoading, absError, submitting, absPc, absToast,
                 backendCount, absSent, absAdded>>
  /\ UNCHANGED absFrame

\* closeSidebar (256), from the Cancel button (part_010 850-852)
closeSidebar ==
  /\ isSidebarOpen
  /\ ~submitting
  /\ isSidebarOpen' = FALSE
  /\ selectedAbstract' = 0
  /\ UNCHANGED <<abstracts, absLoading, absError, submitting, absPc, absToast,
                 backendCount, absSent, absAdded>>
  /\ UNCHANGED absFrame

\* onSubmit up to its await (part_010 305-396); valid: none of the checks
\* before the request returns early
AbstractOnSubmit(valid) ==
  /\ isSidebarOpen
  /\ ~submitting
  /\ absPc = "idle"
  /\ backendCount + 2 <= MaxRecords
  /\ absAdded' = 0
  /\ IF valid
     THEN /\ submitting' = TRUE
          /\ absSent' = 1
          /\ absPc' = "posted"
          /\ UNCHANGED absToast
     ELSE /\ absToast' = "Please select all required categories"
          /\ absSent' = 0
          /\ UNCHANGED <<submitting, absPc>>
  /\ UNCHANGED <<abstracts, selectedAbstract, isSidebarOpen, absLoading,
                 absError, backendCount>>
  /\ UNCHANGED absFrame

\* the response to onSubmit's request arrives (part_010 397-423): on success
\* the handler calls updateAbstract (useAbstractStore.ts 135-155) for an
\* edited abstract, and addAbstract up to its await (67-114) for a new one
AbstractSubmitResponse(resp) ==
  LET thrown == AbstractErrorOf(resp)
  IN /\ absPc = "posted"
     /\ IF thrown # Null
        THEN \* catch and finally (418-423)
             /\ absToast' = thrown
             /\ submitting' = FALSE
             /\ absPc' = "idle"
             /\ UNCHANGED <<abstracts, selectedAbstract, isSidebarOpen,
                            absLoading, absError, backendCount, absSent>>
        ELSE IF selectedAbstract # 0
        THEN \* updateAbstract, toast, closeSidebar, finally (406-411, 417)
             /\ absLoading' = FALSE
             /\ absError' = Null
             /\ isSidebarOpen' = FALSE
             /\ selectedAbstract' = 0
             /\ absToast' = AbstractUpdated
             /\ submitting' = FALSE
             /\ absPc' = "idle"
             /\ backendCount' = backendCount + 1
             /\ UNCHANGED <<abstracts, absSent>>
        ELSE IF resp.body = "nodata"
        THEN \* addAbstract(undefined) throws on data.type before its fetch
             /\ absLoading' = FALSE
             /\ absError' = TypeErrorMsg
             /\ absToast' = TypeErrorMsg
             /\ submitting' = FALSE
             /\ absPc' = "idle"
             /\ backendCount' = backendCount + 1
             /\ UNCHANGED <<abstracts, selectedAbstract, isSidebarOpen, absSent>>
        ELSE \* addAbstract(result.data) posts the abstract again (67-114)
             /\ absLoading' = TRUE
             /\ absError' = Null
             /\ absSent' = absSent + 1
             /\ absPc' = "adding"
             /\ backendCount' = backendCount + 1
             /\ UNCHANGED <<abstracts, selectedAbstract, isSidebarOpen,
                            absToast, submitting>>
     /\ UNCHANGED absAdded
     /\ UNCHANGED absFrame

\* the response to addAbstract's request arrives (useAbstractStore.ts
\* 116-132) and onSubmit runs on (part_010 413-423)
AddAbstractResponse(resp) ==
  LET thrown == AbstractErrorOf(resp)
  IN /\ absPc = "adding"
     /\ absPc' = "idle"
     /\ submitting' = FALSE
     /\ absLoading' = FALSE
     /\ IF thrown # Null
        THEN /\ absError' = thrown
             /\ absToast' = thrown
             /\ UNCHANGED <<abstracts, selectedAbstract, isSidebarOpen,
                            backendCount, absAdded>>
        ELSE /\ abstracts' = Append(abstracts,
                                    IF resp.body = "success"
                                    THEN backendCount + 1 ELSE 0)
             /\ absAdded' = absAdded + 1
             /\ backendCount' = backendCount + 1
             /\ isSidebarOpen' = FALSE
             /\ selectedAbstract' = 0
             /\ absToast' = AbstractSubmitted
             /\ UNCHANGED absError
     /\ UNCHANGED absSent
     /\ UNCHANGED absFrame

AbstractNext ==
  \/ \E id \in {0} \cup AbstractIds : openSidebar(id)
  \/ closeSidebar
  \/ \E valid \in BOOLEAN : AbstractOnSubmit(valid)
  \/ \E resp \in HttpResponses : AbstractSubmitResponse(resp)
  \/ \E resp \in HttpResponses : AddAbstractResponse(resp)

AbstractInit == StoreInit

AbstractSpec == AbstractInit /\ [][AbstractNext]_vars

\* C25: one confirmed submission of a new abstract sends exactly one
\* abstract-submit request to the backend and adds exactly one abstract to the
\* store's list.
C25_OneRequestPerAbstract ==
  (absPc = "idle" /\ absToast = AbstractSubmitted /\ absAdded > 0) =>
    (absSent = 1 /\ absAdded = 1)


(***************************************************************************)
(* Part VII.  The paginated tables: AbstractTable (src/unnamed/part_011)   *)
(* and WorkshopTable (components/registrations/workshop/WorkshopTable.tsx) *)
(***************************************************************************)
TableVariants == {"AbstractTable", "WorkshopTable"}

\* itemsPerPage (part_011 91, WorkshopTable.tsx 234)
ItemsPerPage == 10

\* the columns a header sorts by (part_011 286-314, WorkshopTable.tsx 310-340)
SortColumns ==
  IF tableVariant = "AbstractTable"
  THEN {"title", "abstractNumber", "status"}
  ELSE {"name", "category", "date", "price"}

\* what the search box can hold, and the text of row i that the filter
\* searches (title, workshopName): every row contains "", odd rows contain
\* "alpha", even rows "beta", no row contains "zz"
SearchTerms == {"", "alpha", "zz"}
RowText(i) == IF i % 2 = 1 THEN "alpha" ELSE "beta"
RowIncludes(i, term) == term = "" \/ RowText(i) = term

\* filteredAbstracts / sortedAbstracts (part_011 57-89), getSortedWorkshops
\* (WorkshopTable.tsx 196-231): sorting keeps the rows, so the length of the
\* sorted list is that of the filtered one
SortedLength == Cardinality({i \in 1..items : RowIncludes(i, search)})

\* Math.ceil(sorted.length / itemsPerPage) (part_011 92, WorkshopTable.tsx 235)
totalPages == (SortedLength + ItemsPerPage - 1) \div ItemsPerPage

\* the pagination bar is rendered (part_011 462, WorkshopTable.tsx 463)
PaginationShown == SortedLength > 0

tblFrame == <<regVars, payVars, synVars, restVars, evVars, absVars>>

\* handlePrev (part_011 103, WorkshopTable.tsx 240); the button is disabled
\* on page 1 (475 / 475)
handlePrev ==
  /\ PaginationShown
  /\ currentPage # 1
  /\ currentPage' = IF currentPage - 1 > 1 THEN currentPage - 1 ELSE 1
  /\ UNCHANGED <<tableVariant, items, search, sortBy, sortOrder>>
  /\ UNCHANGED tblFrame

\* handleNext (part_011 104, WorkshopTable.tsx 241); the button is disabled
\* when currentPage === totalPages (514 / 487)
handleNext ==
  /\ PaginationShown
  /\ currentPage # totalPages
  /\ currentPage' = IF currentPage + 1 < totalPages THEN currentPage + 1
                    ELSE totalPages
  /\ UNCHANGED <<tableVariant, items, search, sortBy, sortOrder>>
  /\ UNCHANGED tblFrame

\* the page numbers of the buttons of AbstractTable (part_011 480-491)
PageNums ==
  LET shown == IF totalPages < 5 THEN totalPages ELSE 5
      pageNum(i) == IF totalPages <= 5 THEN i + 1
                    ELSE IF currentPage <= 3 THEN i + 1
                    ELSE IF currentPage >= totalPages - 2
                    THEN totalPages - 4 + i
                    ELSE currentPage - 2 + i
  IN {pageNum(i) : i \in 0..(shown - 1)}

\* a page-number button of AbstractTable (part_011 493-506)
setCurrentPage(pageNum) ==
  /\ tableVariant = "AbstractTable"
  /\ PaginationShown
  /\ pageNum \in PageNums
  /\ currentPage' = pageNum
  /\ UNCHANGED <<tableVariant, items, search, sortBy, sortOrder>>
  /\ UNCHANGED tblFrame

\* typing in the search box (part_011 268, WorkshopTable.tsx 289), and the
\* effect on [search, sortBy, sortOrder] (99-101 / 243-245)
setSearch(term) ==
  /\ term # search
  /\ search' = term
  /\ currentPage' = 1
  /\ UNCHANGED <<tableVariant, items, sortBy, sortOrder>>
  /\ UNCHANGED tblFrame

\* toggleSort (part_011 106-113, WorkshopTable.tsx 187-194) and the effect
toggleSort(column) ==
  /\ column \in SortColumns
  /\ IF sortBy = column
     THEN /\ sortOrder' = IF sortOrder = "asc" THEN "desc" ELSE "asc"
          /\ UNCHANGED sortBy
     ELSE /\ sortBy' = column
          /\ sortOrder' = "asc"
  /\ currentPage' = 1
  /\ UNCHANGED <<tableVariant, items, search>>
  /\ UNCHANGED tblFrame

\* the underlying list changes: the store's abstracts after deleteAbstract,
\* addAbstract or fetchAbstracts (useAbstractStore.ts 123-128, 158-175,
\* 177-249), flatWorkshopItems after fetchRegisteredWorkshops
\* (WorkshopTable.tsx 160-169).  No effect depends on the list.
ListChanges(n) ==
  /\ n # items
  /\ items' = n
  /\ UNCHANGED <<tableVariant, search, sortBy, sortOrder, currentPage>>
  /\ UNCHANGED tblFrame

TableNext ==
  \/ handlePrev
  \/ handleNext
  \/ \E pageNum \in 1..((MaxItems + ItemsPerPage - 1) \div ItemsPerPage) :
       setCurrentPage(pageNum)
  \/ \E term \in SearchTerms : setSearch(term)
  \/ \E column \in {"title", "abstractNumber", "status",
                    "name", "category", "date", "price"} : toggleSort(column)
  \/ \E n \in 0..MaxItems : ListChanges(n)

TableInit ==
  /\ PayIdle
  /\ currentEvent = Null /\ serverForm = <<>> /\ step4Variant = "Signup"
  /\ RegInitStore
  /\ SynIdle
  /\ EvIdle /\ AbsIdle
  /\ \E variant \in TableVariants : TblMounted(variant)

TableSpec == TableInit /\ [][TableNext]_vars

\* C29: in the abstract and workshop tables, after any sequence of
\* next/previous page actions, search or sort changes and changes to the
\* underlying list, currentPage stays within 1..max(1, totalPages).
C29_PageInRange ==
  /\ currentPage >= 1
  /\ currentPage <= (IF totalPages > 1 THEN totalPages ELSE 1)

====
